---- MODULE Spec2Model ----
(***************************************************************************)
(* A model of aider's turn orchestrator (aider/coders/base_coder.py,       *)
(* Coder.run and Coder.send_new_user_message) with the whole-file coder    *)
(* (aider/coders/wholefile_coder.py) and the I/O surface (aider/io.py).    *)
(*                                                                         *)
(* One action stands for the code between two points where the program     *)
(* waits for something outside it: the user's input, the model's reply,    *)
(* the answers to confirmation prompts, the linter, the tests, git.        *)
(* Everything those collaborators return is chosen with \E.                *)
(*                                                                         *)
(* The fields lint_outcome, test_outcome, edit_outcome, aider_edited_files,*)
(* num_malformed_responses and num_exhausted_context_windows are only ever *)
(* written in the source (no branch reads them) and are left out.          *)
(***************************************************************************)
EXTENDS Integers, Sequences, FiniteSets, TLC

\* The relative paths the model knows about.
Paths == {"a", "b"}

\* Bounds of the model.
MaxTime == 3          \* time.time() reads 1 to MaxTime (seconds)
MaxEdits == 2         \* most fenced blocks in one response
MaxLengthStops == 1   \* most length-limited stops the model returns in one send cycle
MaxLines == 5         \* most lines of a reply given to the parser
MaxBatch == 3         \* most edits of a batch given to the gate by itself
MaxApplications == 2  \* most applications of an edit to the files by itself
MaxCommits == 2       \* the commit hashes git can return
MaxStops == 2         \* most length-limited stops in the send loop by itself
MaxTurns == 3         \* most send cycles of the history by itself
MaxInputTokens == 12  \* the largest input-token limit of a model

\* Program constants.
max_reflections == 3  \* Coder.max_reflections
thresh == 2           \* keyboard_interrupt: the debounce window, in seconds

\* Python's None for a message, and message texts as sequences of text atoms:
\* <<>> is the empty string, a \o <<"\n\n">> \o b is string concatenation.
NoneMsg == <<"None">>
Truthy(m) == m # NoneMsg /\ m # <<>>

\* Python's None for last_keyboard_interrupt; time.time() is never 0, and the
\* test "self.last_keyboard_interrupt and ..." treats None and 0 alike.
NoTime == 0

VARIABLES
    cfg,                     \* the options the coder was constructed with
    pc,                      \* where Coder.run is
    num_reflections,         \* Coder.num_reflections
    reflected_message,       \* Coder.reflected_message
    last_keyboard_interrupt, \* Coder.last_keyboard_interrupt
    now,                     \* the last reading of time.time() (NoTime before the first)
    abs_fnames,              \* Coder.abs_fnames (FileContext), as relative paths
    exists,                  \* the paths that exist on disk
    tracked,                 \* the paths git tracks (repo.path_in_repo)
    dirty,                   \* the paths with uncommitted changes (repo.is_dirty)
    multi_response_content,  \* Coder.multi_response_content, as the number of
                             \* length-limited replies accumulated in it (as its
                             \* characters in the send loop by itself)
    edited,                  \* the local "edited" of send_new_user_message
    cur_messages,            \* what this send cycle appended to Coder.cur_messages
    send_cycles,             \* calls of send_new_user_message since init_before_message
    log,                     \* the calls made on the collaborators (prompts, diagnostics,
                             \* file system, git, linter, tests) and the decisions of
                             \* the gate since the send cycle began, in order
    reply_content,           \* the text WholeFileCoder.get_edits reads
                             \* (get_multi_response_content()), as its lines
    extracted,               \* what get_edits did with reply_content
    file_content,            \* the text of each file on disk
    last_aider_commit_hash,  \* Coder.last_aider_commit_hash
    aider_commit_hashes,     \* Coder.aider_commit_hashes
    messages,                \* the local "messages" of send_new_user_message
    partial_response_content, \* Coder.partial_response_content, as its characters
    done_messages,           \* Coder.done_messages (History)
    summarizer_thread,       \* Coder.summarizer_thread, as the number of the task
    summarized_done_messages, \* Coder.summarized_done_messages
    workers,                 \* the summarization tasks started so far, in order
    fence                    \* Coder.fence

vars == <<cfg, pc, num_reflections, reflected_message, last_keyboard_interrupt, now,
          abs_fnames, exists, tracked, dirty, multi_response_content,
          edited, cur_messages, send_cycles, log, reply_content, extracted,
          file_content, last_aider_commit_hash, aider_commit_hashes,
          messages, partial_response_content,
          done_messages, summarizer_thread, summarized_done_messages, workers,
          fence>>

world == <<abs_fnames, exists, tracked, dirty>>

\* The variables that only the specifications of one function by itself use: the
\* specifications of the orchestrator, of the parser and of the gate keep of a
\* file whether it exists and has uncommitted changes, and of a commit that it
\* was made.
summary == <<done_messages, summarizer_thread, summarized_done_messages, workers>>

aside == <<file_content, last_aider_commit_hash, aider_commit_hashes,
           messages, partial_response_content, summary, fence>>

\* wrap_fence
wrap_fence(name) == <<"<" \o name \o ">", "</" \o name \o ">">>

\* Coder.fences; the first pair is of three backticks.
fences ==
    <<<<"BACKTICKS", "BACKTICKS">>,
      wrap_fence("source"),
      wrap_fence("code"),
      wrap_fence("pre"),
      wrap_fence("codeblock"),
      wrap_fence("sourcecode")>>

\* None, as Coder.summarizer_thread.
NoThread == 0

\* The history and the summarizer in a specification that leaves them alone.
NoHistory ==
    /\ done_messages = <<>>
    /\ summarizer_thread = NoThread
    /\ summarized_done_messages = <<>>
    /\ workers = <<>>

\* None, as a commit hash and as the result of repo.commit.
NoHash == 0

\* The text of a file in a specification that does not look at the texts.
Unread == <<"not looked at">>

\* The values of the variables of aside where they are not used.
AsideInit ==
    /\ file_content = [path \in Paths |-> Unread]
    /\ last_aider_commit_hash = NoHash
    /\ aider_commit_hashes = {}
    /\ messages = <<>>
    /\ partial_response_content = <<>>
    /\ NoHistory
    /\ fence = fences[1]

----------------------------------------------------------------------------
\* Configurations: Coder.__init__'s options, and two attributes of the model and
\* of the I/O object.

DefaultConfig ==
    [ with_message  |-> FALSE,   \* run(with_message=...)
      auto_lint     |-> TRUE,
      auto_test     |-> FALSE,
      use_git       |-> TRUE,    \* self.repo is set
      auto_commits  |-> TRUE,
      dirty_commits |-> TRUE,
      dry_run       |-> FALSE,   \* Coder.dry_run
      io_dry_run    |-> FALSE,   \* InputOutput.dry_run
      can_prefill   |-> FALSE ]  \* main_model.can_prefill

AllConfigs ==
    [ with_message : BOOLEAN, auto_lint : BOOLEAN, auto_test : BOOLEAN,
      use_git : BOOLEAN, auto_commits : BOOLEAN, dirty_commits : BOOLEAN,
      dry_run : BOOLEAN, io_dry_run : BOOLEAN, can_prefill : BOOLEAN ]

Deviations(c) == {f \in DOMAIN c : c[f] # DefaultConfig[f]}

\* The default configuration, every configuration one option away from it, and
\* the two pairs of options that go together: without auto_commits there are no
\* dirty commits ("if not auto_commits: dirty_commits = False", Coder.__init__),
\* and a dry run of the coder on an I/O object that is itself in dry-run mode.
Configs ==
    {c \in AllConfigs :
        /\ \/ Cardinality(Deviations(c)) <= 1
           \/ Deviations(c) = {"auto_commits", "dirty_commits"}
           \/ Deviations(c) = {"dry_run", "io_dry_run"}
        /\ (c.dirty_commits => c.auto_commits)}

----------------------------------------------------------------------------
\* The log of calls on the collaborators.

Ev(op, ps, ok) == [op |-> op, paths |-> ps, ok |-> ok]

Ops(l) == {l[i].op : i \in 1..Len(l)}
Has(l, op) == op \in Ops(l)
PathsOf(l, op) == UNION {l[i].paths : i \in {j \in 1..Len(l) : l[j].op = op}}
Count(l, op) == Cardinality({i \in 1..Len(l) : l[i].op = op})

\* In l the events with an operation of before all come before those with an
\* operation of after.
Precede(l, before, after) ==
    \A i, j \in 1..Len(l) : l[i].op \in before /\ l[j].op \in after => i < j

----------------------------------------------------------------------------
\* F(e) with e evaluated once: how the operators below give a name to the result
\* of a call before they go on with it.
Then(e, F(_)) == CHOOSE r \in {F(x) : x \in {e}} : TRUE

----------------------------------------------------------------------------
\* What the model can reply. The text of a reply (partial_response_content) is
\* opaque to the orchestrator until the parser reads it in apply_updates and the
\* mention scan reads it at the end of the cycle; a reply is what the parser finds
\* in the text: the fenced blocks, or no file name before a fence (ValueError).

Sources == {"block"}

RawEdit == [path : Paths, source : Sources]

RECURSIVE SeqsUpTo(_, _)
SeqsUpTo(S, n) ==
    IF n = 0 THEN {<<>>}
    ELSE LET shorter == SeqsUpTo(S, n - 1)
         IN shorter \cup {Append(s, x) : s \in {t \in shorter : Len(t) = n - 1}, x \in S}

Responses ==
    [ edits : SeqsUpTo(RawEdit, MaxEdits), malformed : {FALSE} ]
    \cup [ edits : {<<>>}, malformed : {TRUE} ]

\* The file names the mention scan can find in a text.
Mentions == {{}, Paths}

----------------------------------------------------------------------------
\* WholeFileCoder.get_edits, its last loop: one edit per path, the sources taken in
\* the order block, saw, chat, and within a source the first edit of a path.

RECURSIVE refine_pass(_, _, _, _)
refine_pass(edits, source, seen, out) ==
    IF edits = <<>> THEN [seen |-> seen, out |-> out]
    ELSE LET e == Head(edits)
         IN IF e.source # source \/ e.path \in seen
            THEN refine_pass(Tail(edits), source, seen, out)
            ELSE refine_pass(Tail(edits), source, seen \cup {e.path}, Append(out, e))

\* One edit per path, the first of each path whatever its source.
RECURSIVE refine_by_position(_, _, _)
refine_by_position(edits, seen, out) ==
    IF edits = <<>> THEN out
    ELSE IF Head(edits).path \in seen THEN refine_by_position(Tail(edits), seen, out)
    ELSE refine_by_position(Tail(edits), seen \cup {Head(edits).path},
                            Append(out, Head(edits)))

refined_edits_by_position(edits) == refine_by_position(edits, {}, <<>>)

refined_edits(edits) ==
    Then(refine_pass(edits, "block", {}, <<>>), LAMBDA p1 :
    Then(refine_pass(edits, "saw", p1.seen, p1.out), LAMBDA p2 :
         refine_pass(edits, "chat", p2.seen, p2.out).out))

----------------------------------------------------------------------------
\* WholeFileCoder.get_edits(mode="update") on a text. A line is the sequence of
\* its characters without the line end; a file name is a sequence of characters
\* too. The empty sequence stands for Python's None and for "" alike where the
\* code only tests for truth (fname and saw_fname are never "" when they are kept).

Whitespace == {" "}

\* The character U+0060 (written by name: a string of the module cannot hold it).
backtick == "BACKTICK"

\* str.lstrip(chars), str.rstrip(chars), str.strip(chars)
RECURSIVE lstrip(_, _)
lstrip(str, chars) ==
    IF str # <<>> /\ Head(str) \in chars THEN lstrip(Tail(str), chars) ELSE str

RECURSIVE rstrip(_, _)
rstrip(str, chars) ==
    IF str # <<>> /\ str[Len(str)] \in chars
    THEN rstrip(SubSeq(str, 1, Len(str) - 1), chars)
    ELSE str

strip(str, chars) == rstrip(lstrip(str, chars), chars)

\* line.startswith(self.fence[0]) or line.startswith(self.fence[1]): three
\* backticks are three characters of the line, a fence of wrap_fence is one.
startswith_fence(line) ==
    IF fence = fences[1]
    THEN Len(line) >= 3 /\ \A k \in 1..3 : line[k] = backtick
    ELSE line # <<>> /\ Head(line) \in {fence[1], fence[2]}

\* The header without the strip of the backticks.
header_of_with_backticks(line) ==
    rstrip(strip(strip(line, Whitespace), {"*"}), {":"})

\* "fname = lines[i - 1].strip()" and the three strips that follow it.
header_of(line) ==
    strip(rstrip(strip(strip(line, Whitespace), {"*"}), {":"}), {backtick})

\* Path(fname).name of a name that does not end in a slash.
RECURSIVE basename(_)
basename(fname) ==
    IF \E k \in 1..Len(fname) : fname[k] = "/" THEN basename(Tail(fname)) ELSE fname

\* "if fname and fname not in chat_files and Path(fname).name in chat_files"
without_bogus_dir(fname, chat_files) ==
    IF fname # <<>> /\ fname \notin chat_files /\ basename(fname) \in chat_files
    THEN basename(fname)
    ELSE fname

\* str.split() of a stripped line: the words between runs of whitespace.
RECURSIVE split(_, _, _)
split(str, word, words) ==
    IF str = <<>> THEN IF word = <<>> THEN words ELSE Append(words, word)
    ELSE IF Head(str) \in Whitespace
    THEN split(Tail(str), <<>>, IF word = <<>> THEN words ELSE Append(words, word))
    ELSE split(Tail(str), Append(word, Head(str)), words)

quoted(chat_file) == <<backtick>> \o chat_file \o <<backtick>>

\* The scan of a line outside a block for a quoted in-chat file name: saw_fname
\* after the words of the line.
RECURSIVE saw_after(_, _, _)
saw_after(words, chat_files, saw_fname) ==
    IF words = <<>> THEN saw_fname
    ELSE LET word == rstrip(Head(words), {".", ":", ",", ";", "!"})
             hits == {f \in chat_files : word = quoted(f)}
         IN saw_after(Tail(words), chat_files,
                      IF hits = {} THEN saw_fname ELSE CHOOSE f \in hits : TRUE)

\* The locals of get_edits before its loop.
scan_start ==
    [fname |-> <<>>, fname_source |-> "", new_lines |-> <<>>, at |-> 0,
     saw_fname |-> <<>>, edits |-> <<>>, raised |-> ""]

\* (fname, fname_source, new_lines) of the block being tracked; at, the line of
\* its opening fence, is kept to tell the blocks of a text apart.
tracked_edit(s) ==
    [path |-> s.fname, source |-> s.fname_source, new_lines |-> s.new_lines, at |-> s.at]

\* A block ends and what was seen before it is remembered.
close_block_keeps_saw(s) ==
    [s EXCEPT !.edits = Append(@, tracked_edit(s)),
              !.fname = <<>>, !.fname_source = "", !.new_lines = <<>>]

\* A fence while a block is tracked: the block ends.
close_block(s) ==
    [s EXCEPT !.edits = Append(@, tracked_edit(s)), !.saw_fname = <<>>,
              !.fname = <<>>, !.fname_source = "", !.new_lines = <<>>]

\* The nearest line before line i that is not blank, the empty line if there is
\* none.
RECURSIVE nearest_nonblank_before(_, _)
nearest_nonblank_before(lines, i) ==
    IF i <= 1 THEN <<>>
    ELSE IF strip(lines[i - 1], Whitespace) # <<>> THEN lines[i - 1]
    ELSE nearest_nonblank_before(lines, i - 1)

\* "if i > 0: ... lines[i - 1]": the line before line i, the empty line if line i
\* is the first. i counts the lines from 1.
line_before(lines, i) ==
    IF i > 1 THEN lines[i - 1] ELSE <<>>

\* No file is taken from the chat.
sole_file_never(chat_files) == <<>>

\* "elif len(chat_files) == 1: fname = chat_files[0]": the file of a chat of one
\* file, no name otherwise.
sole_file(chat_files) ==
    IF Cardinality(chat_files) = 1 THEN CHOOSE f \in chat_files : TRUE ELSE <<>>

\* A fence while no block is tracked: a block begins, and its file name is found
\* or ValueError is raised.
open_block(lines, i, chat_files, s) ==
    LET named == without_bogus_dir(header_of(line_before(lines, i)), chat_files)
    IN IF named # <<>>
       THEN [s EXCEPT !.fname = named, !.fname_source = "block", !.at = i]
       ELSE IF s.saw_fname # <<>>
       THEN [s EXCEPT !.fname = s.saw_fname, !.fname_source = "saw", !.at = i]
       ELSE IF sole_file(chat_files) # <<>>
       THEN [s EXCEPT !.fname = sole_file(chat_files), !.fname_source = "chat", !.at = i]
       ELSE [s EXCEPT !.raised = "ValueError", !.at = i]

\* One round of the loop over the lines.
scan_line(lines, i, chat_files, s) ==
    IF startswith_fence(lines[i])
    THEN IF s.fname # <<>> THEN close_block(s) ELSE open_block(lines, i, chat_files, s)
    ELSE IF s.fname # <<>>
    THEN [s EXCEPT !.new_lines = Append(@, lines[i])]
    ELSE [s EXCEPT !.saw_fname =
             saw_after(split(strip(lines[i], Whitespace), <<>>, <<>>), chat_files, @)]

RECURSIVE scan_lines(_, _, _, _)
scan_lines(lines, i, chat_files, s) ==
    IF i > Len(lines) \/ s.raised # "" THEN s
    ELSE Then(scan_line(lines, i, chat_files, s), LAMBDA next :
              scan_lines(lines, i + 1, chat_files, next))

\* A block left open at the end of the text is dropped.
without_last_block(s) == s.edits

\* "if fname: edits.append(...)" after the loop: a block left open ends with the
\* text.
with_last_block(s) ==
    IF s.raised = "" /\ s.fname # <<>> THEN Append(s.edits, tracked_edit(s)) ELSE s.edits

\* get_edits before it has been called.
NotExtracted ==
    [chat_files |-> {}, raised |-> "", raised_at |-> 0, edits |-> <<>>,
     returned |-> <<>>, done |-> FALSE]

\* get_edits: its local chat_files, the exception it raised ("" for none) and the
\* line of the fence where it raised it, its list edits before the duplicates are
\* dropped (as far as it got), and the list it returned.
get_edits_update(lines, chat_files) ==
    Then(scan_lines(lines, 1, chat_files, scan_start), LAMBDA s :
    Then(with_last_block(s), LAMBDA edits :
         [chat_files |-> chat_files,
          raised |-> s.raised, raised_at |-> IF s.raised = "" THEN 0 ELSE s.at,
          edits |-> edits,
          returned |-> IF s.raised = "" THEN refined_edits(edits) ELSE <<>>,
          done |-> TRUE]))

----------------------------------------------------------------------------
\* The gate and the writes (Coder.update_files and what it calls), as operators on
\* a record st of the state they read and change:
\*   abs_fnames, exists, tracked, dirty, need_commit_before_edits, log,
\*   raised (the exception that is propagating, "" for none), ret (a return value).
\* A fault names the one call on the file system or on git that fails in the batch.

NoFault == [op |-> "none", path |-> ""]

Faults ==
    {NoFault, [op |-> "commit", path |-> ""]}
    \cup [op : {"touch", "git_add", "write"}, path : Paths]

\* str(err) of an unclassified exception: some text, or the empty string.
ExcTexts == {<<"exception text">>, <<>>}

Running(st) == st.raised = ""
Raise(st, exc) == [st EXCEPT !.raised = exc]
Emit(st, ev) == [st EXCEPT !.log = Append(@, ev)]

\* Path(full_path).parent.mkdir(...); Path(full_path).touch()
touch(st, path, fault) ==
    IF ~Running(st) THEN st
    ELSE IF fault = [op |-> "touch", path |-> path] THEN Raise(st, "Exception")
    ELSE Emit([st EXCEPT !.exists = @ \cup {path}], Ev("touch", {path}, TRUE))

\* self.repo.repo.git.add(full_path)
git_add(st, path, fault) ==
    IF ~Running(st) THEN st
    ELSE IF fault = [op |-> "git_add", path |-> path] THEN Raise(st, "GitCommandError")
    ELSE Emit([st EXCEPT !.tracked = @ \cup {path}, !.dirty = @ \cup {path}],
              Ev("git_add", {path}, TRUE))

\* InputOutput.write_text
write_text(st, path, fault) ==
    IF ~Running(st) THEN st
    ELSE IF cfg.io_dry_run THEN st
    ELSE IF fault = [op |-> "write", path |-> path] THEN Raise(st, "Exception")
    ELSE Emit([st EXCEPT !.exists = @ \cup {path},
                         !.dirty = IF path \in st.tracked THEN @ \cup {path} ELSE @],
              Ev("write", {path}, TRUE))

check_for_dirty_commit(st, path) ==
    IF ~cfg.use_git THEN st
    ELSE IF ~cfg.dirty_commits THEN st
    ELSE IF path \notin st.dirty THEN st
    ELSE [st EXCEPT !.need_commit_before_edits = @ \cup {path}]

\* allowed_to_edit returns ret for path.
decided(st, path, ret) ==
    [Emit(st, Ev("allowed_to_edit", {path}, ret)) EXCEPT !.ret = ret]

\* The path is put in the chat although its edits are skipped.
skipped_but_added(st, path) ==
    decided(Emit([st EXCEPT !.abs_fnames = @ \cup {path}],
                 Ev("tool_error: Skipping edits", {path}, FALSE)), path, FALSE)

\* "self.io.tool_error(f"Skipping edits to {path}"); return"
skipped(st, path) ==
    decided(Emit(st, Ev("tool_error: Skipping edits", {path}, FALSE)), path, FALSE)

allowed_to_edit(st, path, answer, fault) ==
    LET need_to_add == cfg.use_git /\ path \notin st.tracked
    IN IF path \in st.abs_fnames
       THEN decided(check_for_dirty_commit(st, path), path, TRUE)
       ELSE IF path \notin st.exists
       THEN Then(Emit(st, Ev("confirm: Allow creation", {path}, answer)), LAMBDA asked :
               IF ~answer THEN skipped(asked, path)
               ELSE Then(IF cfg.dry_run THEN asked
                         ELSE IF need_to_add THEN git_add(touch(asked, path, fault), path, fault)
                         ELSE touch(asked, path, fault),
                         LAMBDA made :
                            IF ~Running(made) THEN made
                            ELSE decided([made EXCEPT !.abs_fnames = @ \cup {path}],
                                         path, TRUE)))
       ELSE Then(Emit(st, Ev("confirm: Allow edits", {path}, answer)), LAMBDA asked :
               IF ~answer THEN skipped(asked, path)
               ELSE Then(IF need_to_add THEN git_add(asked, path, fault) ELSE asked,
                         LAMBDA added :
                            IF ~Running(added) THEN added
                            ELSE decided(check_for_dirty_commit(
                                             [added EXCEPT !.abs_fnames = @ \cup {path}], path),
                                         path, TRUE)))

\* No commit is made before the edits.
dirty_commit_never(st, fault) == st

dirty_commit(st, fault) ==
    IF ~Running(st) THEN st
    ELSE IF st.need_commit_before_edits = {} THEN st
    ELSE IF ~cfg.dirty_commits THEN st
    ELSE IF ~cfg.use_git THEN st
    ELSE IF fault.op = "commit" THEN Raise(st, "GitCommandError")
    ELSE Emit([st EXCEPT !.dirty = @ \ st.need_commit_before_edits],
              Ev("commit: dirty", st.need_commit_before_edits, TRUE))

\* "if allowed: res.append(edit)", st1 being the state after allowed_to_edit (or
\* after the look-up in seen).
kept_all(res, edit, st1) == Append(res, edit)

kept(res, edit, st1) ==
    IF Running(st1) /\ st1.ret THEN Append(res, edit) ELSE res

\* No path is found in seen.
in_seen_never(path, seen) == FALSE

\* "if path in seen"
in_seen(path, seen) == path \in seen.decided

\* One round of the loop of prepare_to_edit on the record acc of st, res and
\* seen: seen is its dict, as the paths decided and, among them, the paths allowed.
prepare_round(acc, edit, answers, fault) ==
    LET path == edit.path
        hit == in_seen(path, acc.seen)
    IN Then(IF hit THEN [acc.st EXCEPT !.ret = (path \in acc.seen.allowed)]
            ELSE allowed_to_edit(acc.st, path, answers[path], fault),
            LAMBDA st1 :
               [st |-> st1,
                seen |-> IF hit \/ ~Running(st1) THEN acc.seen
                         ELSE [decided |-> acc.seen.decided \cup {path},
                               allowed |-> IF st1.ret THEN acc.seen.allowed \cup {path}
                                           ELSE acc.seen.allowed],
                res |-> kept(acc.res, edit, st1)])

RECURSIVE prepare_loop(_, _, _, _)
prepare_loop(acc, edits, answers, fault) ==
    IF edits = <<>> \/ ~Running(acc.st) THEN acc
    ELSE Then(prepare_round(acc, Head(edits), answers, fault), LAMBDA next :
              prepare_loop(next, Tail(edits), answers, fault))

prepare_to_edit(st, edits, answers, fault) ==
    Then(prepare_loop([st |-> [st EXCEPT !.need_commit_before_edits = {}],
                       seen |-> [decided |-> {}, allowed |-> {}],
                       res |-> <<>>],
                      edits, answers, fault), LAMBDA r :
    Then(dirty_commit(r.st, fault), LAMBDA c :
         [st |-> IF Running(c) THEN [c EXCEPT !.need_commit_before_edits = {}] ELSE c,
          res |-> r.res]))

\* The edits written from the last to the first.
RECURSIVE apply_edits_last_first(_, _, _)
apply_edits_last_first(st, edits, fault) ==
    IF edits = <<>> \/ ~Running(st) THEN st
    ELSE Then(write_text(st, edits[Len(edits)].path, fault), LAMBDA written :
              apply_edits_last_first(written, SubSeq(edits, 1, Len(edits) - 1), fault))

\* WholeFileCoder.apply_edits
RECURSIVE apply_edits(_, _, _)
apply_edits(st, edits, fault) ==
    IF edits = <<>> \/ ~Running(st) THEN st
    ELSE Then(write_text(st, Head(edits).path, fault), LAMBDA written :
              apply_edits(written, Tail(edits), fault))

\* get_edits that returns the blocks it found before the malformed one.
get_edits_lenient(st, resp) ==
    [st |-> st, res |-> refined_edits(resp.edits)]

\* WholeFileCoder.get_edits on a reply: it raises ValueError on a malformed one.
get_edits(st, resp) ==
    IF resp.malformed THEN [st |-> Raise(st, "ValueError"), res |-> <<>>]
    ELSE [st |-> st, res |-> refined_edits(resp.edits)]

\* Coder.update_files after get_edits returned edits: the state after it and the
\* set it returns.
prepare_and_apply(st, edits, answers, fault) ==
    Then(prepare_to_edit(st, edits, answers, fault), LAMBDA p :
         [st |-> apply_edits(p.st, p.res, fault),
          edited |-> {p.res[i].path : i \in 1..Len(p.res)}])

\* Coder.update_files: the state after it and the set it returns.
update_files(st, resp, answers, fault) ==
    Then(get_edits(st, resp), LAMBDA g :
         IF Running(g.st) THEN prepare_and_apply(g.st, g.res, answers, fault)
         ELSE [st |-> g.st, edited |-> {}])

\* The parser's diagnostic, str(err) of the ValueError of get_edits.
no_filename == <<"No filename provided before fence">>

\* The "except Exception" clause without its assignment to reflected_message.
reflected_after_unreflected_exception(raised, text, reflected) ==
    CASE raised = "ValueError" -> no_filename
      [] OTHER -> reflected

\* The "except ValueError" clause without its assignment to reflected_message.
reflected_after_unreflected_parser(raised, text, reflected) ==
    CASE raised = "Exception" -> text
      [] OTHER -> reflected

\* Coder.apply_updates, its "except" clauses: reflected_message after update_files
\* raised (or not), text being str(err) of an unclassified exception.
reflected_after(raised, text, reflected) ==
    CASE raised = "ValueError" -> no_filename
      [] raised = "GitCommandError" -> reflected
      [] raised = "Exception" -> text
      [] OTHER -> reflected

\* self.io.tool_error(str(err), strip=False) on the text of an exception.
tool_error_str(text) ==
    Ev(IF text = <<>> THEN "tool_error: (empty text)" ELSE "tool_error: " \o text[1],
       {}, FALSE)

\* The diagnostics of the "except" clauses, and the report of the paths edited.
applied_output(u, text) ==
    CASE u.st.raised = "ValueError" ->
           <<Ev("tool_error: did not conform", {}, FALSE), tool_error_str(no_filename)>>
      [] u.st.raised = "GitCommandError" -> <<Ev("tool_error: git", {}, FALSE)>>
      [] u.st.raised = "Exception" ->
           <<Ev("tool_error: Exception while updating files", {}, FALSE),
             tool_error_str(text)>>
      [] u.edited # {} /\ cfg.dry_run ->
           <<Ev("tool_output: Did not apply edit", u.edited, TRUE)>>
      [] u.edited # {} /\ ~cfg.dry_run ->
           <<Ev("tool_output: Applied edit", u.edited, TRUE)>>
      [] OTHER -> <<>>

\* Coder.apply_updates: the state after it, the set it returns (None as the empty
\* set: the callers only test it for truth and iterate it) and reflected_message.
apply_updates(st, resp, answers, fault, text, reflected) ==
    Then(update_files(st, resp, answers, fault), LAMBDA u :
         [st |-> [u.st EXCEPT !.log = @ \o applied_output(u, text)],
          edited |-> IF Running(u.st) THEN u.edited ELSE {},
          reflected |-> reflected_after(u.st.raised, text, reflected)])

----------------------------------------------------------------------------
\* The initial state: the coder as constructed, Coder.run about to start.

Init ==
    /\ cfg \in Configs
    /\ pc = "start"
    /\ num_reflections = 0
    /\ reflected_message = NoneMsg
    /\ last_keyboard_interrupt = NoTime
    /\ now = NoTime
    /\ abs_fnames \in {S \in SUBSET Paths : "a" \in S}
    /\ exists \in {e \in SUBSET Paths : abs_fnames \subseteq e}
    /\ tracked \in IF cfg.use_git
                   THEN {t \in SUBSET exists : abs_fnames \subseteq t}
                   ELSE {{}}
    /\ dirty \in SUBSET (tracked \cap {"a"})
    /\ multi_response_content = 0
    /\ edited = {}
    /\ cur_messages = <<>>
    /\ send_cycles = 0
    /\ log = <<>>
    /\ reply_content = <<>>
    /\ extracted = NotExtracted
    /\ AsideInit

----------------------------------------------------------------------------
\* Pieces of Coder.run and Coder.send_new_user_message that several actions share.

Msg(role, content) == [role |-> role, content |-> content]

\* keyboard_interrupt with the window closed at its end: "<= thresh".
keyboard_interrupt_inclusive(last, t) ==
    IF last # NoTime /\ t - last <= thresh
    THEN [exit |-> TRUE, last |-> last,
          events |-> <<[op |-> "tool_error: ^C KeyboardInterrupt", paths |-> {}, ok |-> FALSE]>>]
    ELSE [exit |-> FALSE, last |-> t,
          events |-> <<[op |-> "tool_error: ^C again to exit", paths |-> {}, ok |-> FALSE]>>]

\* Coder.keyboard_interrupt at time t, last being last_keyboard_interrupt: whether
\* it exits the process, the new last_keyboard_interrupt, the diagnostic.
keyboard_interrupt(last, t) ==
    IF last # NoTime /\ t - last < thresh
    THEN [exit |-> TRUE, last |-> last,
          events |-> <<Ev("tool_error: ^C KeyboardInterrupt", {}, FALSE)>>]
    ELSE [exit |-> FALSE, last |-> t,
          events |-> <<Ev("tool_error: ^C again to exit", {}, FALSE)>>]

\* What time.time() can read when the last reading was t0: the clock does not go
\* back, and the first reading is at least 1.
Clock(t0) == {t \in 1..MaxTime : t >= t0}

\* The event of the user pressing ^C.
SigInt == Ev("KeyboardInterrupt", {}, FALSE)

\* init_before_message without its reset of the count.
init_before_message_keeps_count ==
    /\ reflected_message' = NoneMsg
    /\ UNCHANGED num_reflections

\* Coder.init_before_message
init_before_message ==
    /\ reflected_message' = NoneMsg
    /\ num_reflections' = 0

\* send_new_user_message(inp) up to its call of send: the user message is appended
\* to cur_messages and the accumulated response is emptied. cycles is the number
\* of send cycles the turn has made before this one.
begin_send(inp, cycles) ==
    /\ pc' = "sending"
    /\ cur_messages' = <<Msg("user", inp)>>
    /\ multi_response_content' = 0
    /\ edited' = {}
    /\ send_cycles' = cycles + 1
    /\ log' = <<>>

\* WholeFileCoder.update_cur_messages
update_cur_messages(msgs, edits) ==
    IF edits # {} THEN Append(msgs, Msg("assistant", <<"redacted_edit_message">>))
    ELSE Append(msgs, Msg("assistant", <<"partial_response_content">>))

\* Coder.get_addable_relative_files
get_addable_relative_files(in_chat) ==
    (IF cfg.use_git THEN tracked \cap exists ELSE in_chat \cap exists) \ in_chat

\* The end of run's inner loop: run returns when it was given a message, and
\* goes round its outer loop otherwise.
end_of_turn == IF cfg.with_message THEN "returned" ELSE "start"

----------------------------------------------------------------------------
\* Coder.run, outside send_new_user_message.

\* The top of run's outer loop: init_before_message, then either the message run
\* was given is sent or run_loop waits for the user's input.
Start ==
    /\ pc = "start"
    /\ init_before_message
    /\ IF cfg.with_message
       THEN begin_send(<<"with_message">>, 0)
       ELSE /\ pc' = "idle"
            /\ send_cycles' = 0
            /\ log' = <<>>
            /\ UNCHANGED <<cur_messages, multi_response_content, edited>>
    /\ UNCHANGED <<cfg, aside, reply_content, extracted, last_keyboard_interrupt, now, world>>

\* The mentioned files added to the chat whatever the user answers.
check_for_file_mentions_unasked(mentions, ok) ==
    LET mentioned == mentions \cap get_addable_relative_files(abs_fnames)
    IN IF mentioned = {}
       THEN [abs_fnames |-> abs_fnames, events |-> <<>>, message |-> NoneMsg]
       ELSE [abs_fnames |-> abs_fnames \cup mentioned,
             events |-> <<Ev("confirm: Add these files", mentioned, ok)>>,
             message |-> IF ok THEN <<"added_files">> ELSE NoneMsg]

\* Coder.check_for_file_mentions on a text that mentions the paths in mentions,
\* the user answering ok if asked: the new abs_fnames, the calls made, the
\* message returned.
check_for_file_mentions(mentions, ok) ==
    LET mentioned == mentions \cap get_addable_relative_files(abs_fnames)
    IN IF mentioned = {}
       THEN [abs_fnames |-> abs_fnames, events |-> <<>>, message |-> NoneMsg]
       ELSE IF ~ok
       THEN [abs_fnames |-> abs_fnames,
             events |-> <<Ev("confirm: Add these files", mentioned, FALSE)>>,
             message |-> NoneMsg]
       ELSE [abs_fnames |-> abs_fnames \cup mentioned,
             events |-> <<Ev("confirm: Add these files", mentioned, TRUE)>>,
             message |-> <<"added_files">>]

\* run_loop returns a request: the files it mentions are offered to the chat, and
\* run's inner loop sends it.
UserInput ==
    /\ pc = "idle"
    /\ \E mentions \in Mentions, ok \in BOOLEAN :
          abs_fnames' = check_for_file_mentions(mentions, ok).abs_fnames
    /\ begin_send(<<"inp">>, send_cycles)
    /\ UNCHANGED <<cfg, aside, reply_content, extracted, num_reflections, reflected_message, last_keyboard_interrupt, now,
                   exists, tracked, dirty>>

\* run_loop returns nothing (a blank line, or a command with no message for the
\* model): the inner loop is skipped and the outer loop goes round.
NoInput ==
    /\ pc = "idle"
    /\ pc' = "start"
    /\ UNCHANGED <<cfg, aside, reply_content, extracted, num_reflections, reflected_message, last_keyboard_interrupt, now,
                   world, multi_response_content, edited, cur_messages, send_cycles, log>>

\* The input ends: EOFError, and run returns.
EndOfInput ==
    /\ pc = "idle"
    /\ pc' = "returned"
    /\ UNCHANGED <<cfg, aside, reply_content, extracted, num_reflections, reflected_message, last_keyboard_interrupt, now,
                   world, multi_response_content, edited, cur_messages, send_cycles, log>>

\* The test of the limit off by one: "<=".
can_reflect_inclusive == num_reflections <= max_reflections

\* "if self.num_reflections < self.max_reflections"
can_reflect == num_reflections < max_reflections

\* The limit reached without a word to the user.
limit_silent == <<>>

\* The diagnostic of the reflection limit.
limit_diagnostic == <<Ev("tool_error: Only 3 reflections allowed", {}, FALSE)>>

\* run after send_new_user_message has returned: the decision to send the
\* reflected message or to end the turn.
Reflect ==
    /\ pc = "reflecting"
    /\ IF Truthy(reflected_message)
       THEN IF can_reflect
            THEN /\ num_reflections' = num_reflections + 1
                 /\ reflected_message' = NoneMsg
                 /\ begin_send(reflected_message, send_cycles)
            ELSE /\ log' = log \o limit_diagnostic
                 /\ pc' = end_of_turn
                 /\ UNCHANGED <<num_reflections, reflected_message, cur_messages,
                                multi_response_content, edited, send_cycles>>
       ELSE /\ pc' = end_of_turn
            /\ UNCHANGED <<num_reflections, reflected_message, cur_messages,
                           multi_response_content, edited, send_cycles, log>>
    /\ UNCHANGED <<cfg, aside, reply_content, extracted, last_keyboard_interrupt, now, world>>

\* The places where send_new_user_message and run_loop wait for the user or for
\* a tool, outside the send: a ^C there is caught by run.
RunInterruptible == {"idle", "applying", "linting", "testing", "committing", "scanning"}

\* ^C outside the send: run's "except KeyboardInterrupt" calls keyboard_interrupt
\* and the outer loop goes round.
RunKeyboardInterrupt ==
    /\ pc \in RunInterruptible
    /\ \E t \in Clock(now) :
          LET k == keyboard_interrupt(last_keyboard_interrupt, t)
          IN /\ now' = t
             /\ last_keyboard_interrupt' = k.last
             /\ log' = log \o <<SigInt>> \o k.events
             /\ pc' = IF k.exit THEN "exited" ELSE "start"
    /\ UNCHANGED <<cfg, aside, reply_content, extracted, num_reflections, reflected_message, world,
                   multi_response_content, edited, cur_messages, send_cycles>>

----------------------------------------------------------------------------
\* Coder.send_new_user_message: the send loop. What the model transport does is
\* the choice of the action.

\* What every way out of the send loop but a continuation does: the "finally"
\* sets partial_response_content and empties multi_response_content.
leave_send_loop ==
    multi_response_content' = 0

\* The "return" after the diagnostic of a failed send left out: apply_updates
\* comes next.
no_return_from_send(events) ==
    /\ pc' = "applying"
    /\ log' = log \o events
    /\ UNCHANGED <<cfg, aside, reply_content, extracted, num_reflections, reflected_message, last_keyboard_interrupt, now,
                   world, edited, cur_messages, send_cycles>>

\* The return of send_new_user_message without an assistant message.
return_from_send(events) ==
    /\ pc' = "reflecting"
    /\ log' = log \o events
    /\ UNCHANGED <<cfg, aside, reply_content, extracted, num_reflections, reflected_message, last_keyboard_interrupt, now,
                   world, edited, cur_messages, send_cycles>>

\* send returns with the complete reply: on to apply_updates.
SendContent ==
    /\ pc = "sending"
    /\ leave_send_loop
    /\ pc' = "applying"
    /\ UNCHANGED <<cfg, aside, reply_content, extracted, num_reflections, reflected_message, last_keyboard_interrupt, now,
                   world, edited, cur_messages, send_cycles, log>>

\* The "return" of the interrupted branch left out: apply_updates comes next.
interrupted_falls_through == "applying"

\* Where send_new_user_message goes once it has recorded the interrupted reply:
\* it returns to run.
interrupted_next == "reflecting"

\* ^C during the send: Coder.send calls keyboard_interrupt and raises again,
\* send_new_user_message marks the cycle interrupted, records the partial text as
\* an assistant message and returns.
SendKeyboardInterrupt ==
    /\ pc = "sending"
    /\ \E t \in Clock(now) :
          LET k == keyboard_interrupt(last_keyboard_interrupt, t)
          IN /\ now' = t
             /\ last_keyboard_interrupt' = k.last
             /\ log' = log \o <<SigInt>> \o k.events
             /\ IF k.exit
                THEN /\ pc' = "exited"
                     /\ UNCHANGED <<multi_response_content, cur_messages>>
                ELSE /\ pc' = interrupted_next
                     /\ leave_send_loop
                     /\ cur_messages' =
                           Append(cur_messages,
                                  Msg("assistant",
                                      <<"partial_response_content", "^C KeyboardInterrupt">>))
    /\ UNCHANGED <<cfg, aside, reply_content, extracted, num_reflections, reflected_message, world, edited, send_cycles>>

\* litellm.ContextWindowExceededError
SendContextWindowExceeded ==
    /\ pc = "sending"
    /\ leave_send_loop
    /\ return_from_send(<<Ev("tool_error: token limit", {}, FALSE)>>)

\* litellm.exceptions.BadRequestError
SendBadRequest ==
    /\ pc = "sending"
    /\ leave_send_loop
    /\ return_from_send(<<Ev("tool_error: BadRequestError", {}, FALSE)>>)

\* Any other exception of the send.
SendUnexpectedError ==
    /\ pc = "sending"
    /\ leave_send_loop
    /\ return_from_send(<<Ev("tool_error: Unexpected error", {}, FALSE)>>)

\* FinishReasonLength: a model that can be primed is sent the text so far, kept in
\* multi_response_content, to continue it; with any other model the context is
\* exhausted.
SendFinishReasonLength ==
    /\ pc = "sending"
    /\ IF cfg.can_prefill
       THEN /\ multi_response_content < MaxLengthStops
            /\ multi_response_content' = multi_response_content + 1
            /\ log' = Append(log, Ev("send: primed continuation", {}, TRUE))
            /\ UNCHANGED <<cfg, aside, reply_content, extracted, pc, num_reflections, reflected_message,
                           last_keyboard_interrupt, now, world, edited, cur_messages,
                           send_cycles>>
       ELSE /\ leave_send_loop
            /\ return_from_send(<<Ev("tool_error: token limit", {}, FALSE)>>)

----------------------------------------------------------------------------
\* Coder.send_new_user_message after the send loop.

\* apply_updates and the test of reflected_message that follows it. What the
\* parser finds in the reply, the user's answers to the gate's prompts, the call
\* that fails (if any) and the text of the exception are the choice of the action;
\* r is what apply_updates does with them.
ApplyUpdatesOn(response, answers, fault, text) ==
    /\ pc = "applying"
    /\ \E r \in {apply_updates([abs_fnames |-> abs_fnames, exists |-> exists,
                             tracked |-> tracked, dirty |-> dirty,
                             need_commit_before_edits |-> {}, log |-> log,
                             raised |-> "", ret |-> FALSE],
                            response, answers, fault, text, reflected_message)} :
          /\ abs_fnames' = r.st.abs_fnames
          /\ exists' = r.st.exists
          /\ tracked' = r.st.tracked
          /\ dirty' = r.st.dirty
          /\ log' = r.st.log
          /\ reflected_message' = r.reflected
          /\ edited' = r.edited
          /\ IF Truthy(r.reflected)
             THEN /\ cur_messages' = update_cur_messages(cur_messages, {})
                  /\ pc' = "reflecting"
             ELSE /\ cur_messages' = cur_messages
                  /\ pc' = "linting"
    /\ UNCHANGED <<cfg, aside, reply_content, extracted, num_reflections, last_keyboard_interrupt, now,
                   multi_response_content, send_cycles>>

ApplyUpdates ==
    \E response \in Responses, answers \in [Paths -> BOOLEAN], fault \in Faults,
       text \in ExcTexts :
       ApplyUpdatesOn(response, answers, fault, text)

\* The "return" of the lint step left out: the test step comes next.
lint_reflected_falls_through == "testing"

\* Where send_new_user_message goes once the lint errors are the reflected
\* message: it returns to run.
lint_reflected_next == "reflecting"

\* The lint errors reflected without the user being asked.
lint_reflects_unasked(lint_errors, ok) == lint_errors

\* "if lint_errors: ok = confirm_ask(...); if ok:" of the lint step.
lint_reflects(lint_errors, ok) == lint_errors /\ ok

\* The lint step: lint_edited on the edited paths, failing being the paths the
\* linter reports errors for (none, or all of them), and the offer to fix them.
Lint ==
    /\ pc = "linting"
    /\ IF edited # {} /\ cfg.auto_lint
       THEN \E failing \in {{}, edited}, ok \in BOOLEAN :
               LET ran == Append(log, Ev("lint", edited, failing = {}))
               IN IF failing = {}
                  THEN /\ log' = ran
                       /\ pc' = "testing"
                       /\ UNCHANGED <<reflected_message, cur_messages>>
                  ELSE /\ log' = ran \o <<Ev("tool_error: lint errors", failing, FALSE),
                                          Ev("confirm: Attempt to fix lint errors", {}, ok)>>
                       /\ IF lint_reflects(failing # {}, ok)
                          THEN /\ reflected_message' = <<"lint_errors">>
                               /\ cur_messages' = update_cur_messages(cur_messages, {})
                               /\ pc' = lint_reflected_next
                          ELSE /\ pc' = "testing"
                               /\ UNCHANGED <<reflected_message, cur_messages>>
       ELSE /\ pc' = "testing"
            /\ UNCHANGED <<log, reflected_message, cur_messages>>
    /\ UNCHANGED <<cfg, aside, reply_content, extracted, num_reflections, last_keyboard_interrupt, now, world,
                   multi_response_content, edited, send_cycles>>

\* The test errors reflected without the user being asked.
test_reflects_unasked(test_errors, ok) == test_errors

\* "if test_errors: ok = confirm_ask(...); if ok:" of the test step.
test_reflects(test_errors, ok) == test_errors /\ ok

\* The test step: cmd_test, and the offer to fix the errors.
Test ==
    /\ pc = "testing"
    /\ IF edited # {} /\ cfg.auto_test
       THEN \E passed \in BOOLEAN, ok \in BOOLEAN :
               LET ran == Append(log, Ev("test", {}, passed))
               IN IF passed
                  THEN /\ log' = ran
                       /\ pc' = "committing"
                       /\ UNCHANGED <<reflected_message, cur_messages>>
                  ELSE /\ log' = Append(ran, Ev("confirm: Attempt to fix test errors", {}, ok))
                       /\ IF test_reflects(~passed, ok)
                          THEN /\ reflected_message' = <<"test_errors">>
                               /\ cur_messages' = update_cur_messages(cur_messages, {})
                               /\ pc' = "reflecting"
                          ELSE /\ pc' = "committing"
                               /\ UNCHANGED <<reflected_message, cur_messages>>
       ELSE /\ pc' = "committing"
            /\ UNCHANGED <<log, reflected_message, cur_messages>>
    /\ UNCHANGED <<cfg, aside, reply_content, extracted, num_reflections, last_keyboard_interrupt, now, world,
                   multi_response_content, edited, send_cycles>>

\* The commit is given the paths with uncommitted changes as well.
auto_commit_all_dirty(l, fnames, made) ==
    Append(l, Ev("commit: auto", fnames \cup dirty, made))

\* Coder.auto_commit: self.repo.commit(fnames=edited, ...), made being whether git
\* had something to commit.
auto_commit(l, fnames, made) ==
    Append(l, Ev("commit: auto", fnames, made))

\* The commit step: update_cur_messages, then, if something was edited,
\* auto_commit (made: whether git had something to commit) and
\* move_back_cur_messages.
Commit ==
    /\ pc = "committing"
    /\ IF edited # {}
       THEN /\ cur_messages' = <<>>
            /\ IF cfg.use_git /\ cfg.auto_commits /\ ~cfg.dry_run
               THEN \E made \in BOOLEAN :
                       /\ log' = auto_commit(log, edited, made)
                       /\ dirty' = dirty \ edited
               ELSE UNCHANGED <<log, dirty>>
       ELSE /\ cur_messages' = update_cur_messages(cur_messages, edited)
            /\ UNCHANGED <<log, dirty>>
    /\ pc' = "scanning"
    /\ UNCHANGED <<cfg, aside, reply_content, extracted, num_reflections, reflected_message, last_keyboard_interrupt, now,
                   abs_fnames, exists, tracked, multi_response_content, edited, send_cycles>>

\* The scan of the reply for files to add, the last step of the cycle.
Scan ==
    /\ pc = "scanning"
    /\ \E mentions \in Mentions, ok \in BOOLEAN :
          LET c == check_for_file_mentions(mentions, ok)
          IN /\ abs_fnames' = c.abs_fnames
             /\ log' = Append(log, Ev("get_file_mentions", {}, TRUE)) \o c.events
             /\ reflected_message' =
                   IF c.message = NoneMsg THEN reflected_message
                   ELSE IF Truthy(reflected_message)
                   THEN reflected_message \o <<"\n\n">> \o c.message
                   ELSE c.message
    /\ pc' = "reflecting"
    /\ UNCHANGED <<cfg, aside, reply_content, extracted, num_reflections, last_keyboard_interrupt, now, exists, tracked,
                   dirty, multi_response_content, edited, cur_messages, send_cycles>>

----------------------------------------------------------------------------

Next ==
    \/ Start
    \/ UserInput
    \/ NoInput
    \/ EndOfInput
    \/ Reflect
    \/ RunKeyboardInterrupt
    \/ SendContent
    \/ SendKeyboardInterrupt
    \/ SendContextWindowExceeded
    \/ SendBadRequest
    \/ SendUnexpectedError
    \/ SendFinishReasonLength
    \/ ApplyUpdates
    \/ Lint
    \/ Test
    \/ Commit
    \/ Scan

Spec == Init /\ [][Next]_vars

\* A reply without a fenced block: the gate has nothing to ask and nothing fails.
ApplyUpdatesOnProse ==
    ApplyUpdatesOn([edits |-> <<>>, malformed |-> FALSE], [p \in Paths |-> FALSE],
                   NoFault, <<>>)

\* The steps the program takes by itself once the collaborator it waits for has
\* answered: every step but the user's input and the user's ^C. Of the steps of
\* apply_updates one is listed: it is enabled exactly when the others are, and
\* every one of them leaves "applying", so that weak fairness of this one says
\* what weak fairness of all of them says, that run does not stay there forever.
CycleStep ==
    \/ Start
    \/ Reflect
    \/ SendContent
    \/ SendContextWindowExceeded
    \/ SendBadRequest
    \/ SendUnexpectedError
    \/ SendFinishReasonLength
    \/ ApplyUpdatesOnProse
    \/ Lint
    \/ Test
    \/ Commit
    \/ Scan

\* Every send returns and every collaborator answers.
FairSpec == Spec /\ WF_vars(CycleStep)

----------------------------------------------------------------------------
\* The parser by itself: get_edits on every text of at most MaxLines lines, with
\* each set of files in the chat.

fence_line == <<backtick, backtick, backtick>>

\* The lines of the texts: a fence, an empty line, a bare file name, a file name
\* in bold with backticks and a colon, a sentence that quotes a file name, a
\* quoted file name, a file name under a directory.
Lines ==
    { fence_line,
      <<>>,
      <<"a">>,
      <<"*", "*", backtick, "b", backtick, ":", "*", "*">>,
      <<"s", " ", backtick, "b", backtick, ".">>,
      <<backtick, "a", backtick>>,
      <<"p", "/", "a">> }

Contents == SeqsUpTo(Lines, MaxLines)

\* get_inchat_relative_files() of abs_fnames, as file names of the parser.
chat_files_of(fnames) == {<<f>> : f \in fnames}

ParseInit ==
    /\ cfg = DefaultConfig
    /\ pc = "extracting"
    /\ num_reflections = 0
    /\ reflected_message = NoneMsg
    /\ last_keyboard_interrupt = NoTime
    /\ now = NoTime
    /\ abs_fnames \in SUBSET Paths
    /\ exists = abs_fnames
    /\ tracked = abs_fnames
    /\ dirty = {}
    /\ multi_response_content = 0
    /\ edited = {}
    /\ cur_messages = <<>>
    /\ send_cycles = 0
    /\ log = <<>>
    /\ reply_content \in Contents
    /\ extracted = NotExtracted
    /\ AsideInit

\* self.get_edits()
GetEdits ==
    /\ pc = "extracting"
    /\ pc' = "applying"
    /\ extracted' = get_edits_update(reply_content, chat_files_of(abs_fnames))
    /\ UNCHANGED <<cfg, aside, reply_content, num_reflections, reflected_message,
                   last_keyboard_interrupt, now, world, multi_response_content, edited,
                   cur_messages, send_cycles, log>>

\* A file name of the parser as a path of the file system: its characters joined.
RECURSIVE str_of(_)
str_of(fname) ==
    IF fname = <<>> THEN "" ELSE Head(fname) \o str_of(Tail(fname))

\* What get_edits did, as a reply of Responses: its edits with their paths, or a
\* malformed reply if it raised.
response_of(ex) ==
    [edits |-> [k \in 1..Len(ex.edits) |->
                  [path |-> str_of(ex.edits[k].path), source |-> ex.edits[k].source,
                   at |-> ex.edits[k].at]],
     malformed |-> ex.raised # ""]

\* Coder.apply_updates on what get_edits did with reply_content, the user answering
\* the prompts for the paths of the reply; no call on the file system or on git
\* fails.
ApplyExtracted ==
    \E response \in {response_of(extracted)} :
       \E answers \in [{response.edits[k].path : k \in 1..Len(response.edits)} -> BOOLEAN] :
          ApplyUpdatesOn(response, answers, NoFault, <<>>)

ParseNext == GetEdits \/ ApplyExtracted

ParseSpec == ParseInit /\ [][ParseNext]_vars

----------------------------------------------------------------------------
\* The gate by itself: Coder.update_files from the point where get_edits has
\* returned, on every list of at most MaxBatch edits (a path may occur in it more
\* than once: prepare_to_edit takes any list), in every configuration and with
\* every state of the files.

Batches == SeqsUpTo(RawEdit, MaxBatch)

GateInit ==
    /\ cfg \in Configs
    /\ pc = "gating"
    /\ num_reflections = 0
    /\ reflected_message = NoneMsg
    /\ last_keyboard_interrupt = NoTime
    /\ now = NoTime
    /\ abs_fnames \in SUBSET Paths
    /\ exists \in {e \in SUBSET Paths : abs_fnames \subseteq e}
    /\ tracked \in IF cfg.use_git
                   THEN {t \in SUBSET exists : abs_fnames \subseteq t}
                   ELSE {{}}
    /\ dirty \in SUBSET tracked
    /\ multi_response_content = 0
    /\ edited = {}
    /\ cur_messages = <<>>
    /\ send_cycles = 0
    /\ log = <<>>
    /\ reply_content = <<>>
    /\ extracted \in {[NotExtracted EXCEPT !.returned = batch, !.done = TRUE] :
                         batch \in Batches}
    /\ AsideInit

\* edits = self.prepare_to_edit(edits); self.apply_edits(edits); return set(...)
\* The step ends with the return of update_files, or with the exception that
\* leaves it.
PrepareAndApply ==
    /\ pc = "gating"
    /\ \E answers \in [Paths -> BOOLEAN], fault \in Faults :
          \E r \in {prepare_and_apply([abs_fnames |-> abs_fnames, exists |-> exists,
                                       tracked |-> tracked, dirty |-> dirty,
                                       need_commit_before_edits |-> {}, log |-> log,
                                       raised |-> "", ret |-> FALSE],
                                      extracted.returned, answers, fault)} :
             /\ abs_fnames' = r.st.abs_fnames
             /\ exists' = r.st.exists
             /\ tracked' = r.st.tracked
             /\ dirty' = r.st.dirty
             /\ log' = r.st.log
             /\ edited' = IF Running(r.st) THEN r.edited ELSE {}
             /\ pc' = IF Running(r.st) THEN "updated" ELSE r.st.raised
    /\ UNCHANGED <<cfg, aside, reply_content, extracted, num_reflections, reflected_message,
                   last_keyboard_interrupt, now, multi_response_content, cur_messages,
                   send_cycles>>

GateSpec == GateInit /\ [][PrepareAndApply]_vars

----------------------------------------------------------------------------
\* The writes and the commit record by themselves: WholeFileCoder.apply_edits on
\* the texts of the files, then Coder.auto_commit, for one list of edits applied
\* again and again, the user changing the files in between or not.

\* "".join(new_lines)
RECURSIVE join(_)
join(new_lines) ==
    IF new_lines = <<>> THEN "" ELSE Head(new_lines) \o join(Tail(new_lines))

\* The text is added to the end of the file.
write_text_appending(files, filename, content) ==
    IF cfg.io_dry_run THEN files
    ELSE [files EXCEPT ![filename] = @ \o content]

\* InputOutput.write_text on the texts of the files: open(filename, "w"), write.
write_text_content(files, filename, content) ==
    IF cfg.io_dry_run THEN files
    ELSE [files EXCEPT ![filename] = content]

\* WholeFileCoder.apply_edits on the texts of the files.
RECURSIVE apply_edits_content(_, _)
apply_edits_content(files, edits) ==
    IF edits = <<>> THEN files
    ELSE apply_edits_content(
             write_text_content(files, Head(edits).path, join(Head(edits).new_lines)),
             Tail(edits))

\* The commit hashes repo.commit can return.
Hashes == 1..MaxCommits

\* Coder.auto_commit, what it records: res is what repo.commit returned, the hash
\* of the commit or None.
auto_commit_record(rec, res) ==
    IF res # NoHash
    THEN [last_aider_commit_hash |-> res,
          aider_commit_hashes |-> rec.aider_commit_hashes \cup {res}]
    ELSE rec

\* The lines of the edits and the texts of the files.
NewLines == SeqsUpTo({"x\n", "y\n"}, 2)
InitialTexts == {"", "x\n"}

\* The lists of edits get_edits can return: one edit, or one for each path.
ContentEdits ==
    {<<[path |-> path, source |-> "block", new_lines |-> new_lines]>> :
        path \in Paths, new_lines \in NewLines}
    \cup {<<[path |-> "a", source |-> "block", new_lines |-> first],
            [path |-> "b", source |-> "block", new_lines |-> second]>> :
           first \in NewLines, second \in {<<>>, <<"x\n">>}}

EditInit ==
    /\ cfg \in Configs
    /\ pc = "unedited"
    /\ num_reflections = 0
    /\ reflected_message = NoneMsg
    /\ last_keyboard_interrupt = NoTime
    /\ now = NoTime
    /\ abs_fnames = Paths
    /\ exists = Paths
    /\ tracked = IF cfg.use_git THEN Paths ELSE {}
    /\ dirty = {}
    /\ multi_response_content = 0
    /\ edited = {}
    /\ cur_messages = <<>>
    /\ send_cycles = 0
    /\ log = <<>>
    /\ reply_content = <<>>
    /\ extracted \in {[NotExtracted EXCEPT !.returned = edits, !.done = TRUE] :
                         edits \in ContentEdits}
    /\ file_content \in [Paths -> InitialTexts]
    /\ last_aider_commit_hash = NoHash
    /\ aider_commit_hashes = {}
    /\ messages = <<>>
    /\ partial_response_content = <<>>
    /\ NoHistory
    /\ fence = fences[1]

\* self.apply_edits(edits), and at the end of the cycle
\* "if self.repo and self.auto_commits and not self.dry_run: self.auto_commit(edited)",
\* res being what repo.commit returns.
ApplyAndCommit ==
    /\ send_cycles < MaxApplications
    /\ send_cycles' = send_cycles + 1
    /\ pc' = "applied"
    /\ file_content' = apply_edits_content(file_content, extracted.returned)
    /\ edited' = {extracted.returned[k].path : k \in 1..Len(extracted.returned)}
    /\ IF cfg.use_git /\ cfg.auto_commits /\ ~cfg.dry_run
       THEN \E res \in {NoHash} \cup Hashes :
               \E rec \in {auto_commit_record(
                               [last_aider_commit_hash |-> last_aider_commit_hash,
                                aider_commit_hashes |-> aider_commit_hashes], res)} :
                  /\ last_aider_commit_hash' = rec.last_aider_commit_hash
                  /\ aider_commit_hashes' = rec.aider_commit_hashes
                  /\ log' = <<Ev("commit: auto", edited', res # NoHash)>>
       ELSE /\ log' = <<>>
            /\ UNCHANGED <<last_aider_commit_hash, aider_commit_hashes>>
    /\ UNCHANGED <<cfg, fence, reply_content, extracted, num_reflections, reflected_message,
                   last_keyboard_interrupt, now, world, multi_response_content,
                   cur_messages, messages, partial_response_content, summary>>

\* The user changes a file between two cycles.
UserEdit ==
    /\ pc = "applied"
    /\ pc' = "unedited"
    /\ \E path \in Paths, text \in InitialTexts :
          /\ file_content[path] # text
          /\ file_content' = [file_content EXCEPT ![path] = text]
    /\ UNCHANGED <<cfg, fence, reply_content, extracted, num_reflections, reflected_message,
                   last_keyboard_interrupt, now, world, multi_response_content, edited,
                   cur_messages, send_cycles, log, last_aider_commit_hash,
                   aider_commit_hashes, messages, partial_response_content, summary>>

EditNext == ApplyAndCommit \/ UserEdit

EditSpec == EditInit /\ [][EditNext]_vars

----------------------------------------------------------------------------
\* The send loop of send_new_user_message by itself, with the text of the replies
\* and the list of messages given to each send. A text is the sequence of its
\* characters.

\* The reply so far kept with the white space at its end.
get_multi_response_content_unstripped(cur, new, final) == cur \o new

\* Coder.get_multi_response_content
get_multi_response_content(cur, new, final) ==
    IF rstrip(new, Whitespace) # new /\ ~final
    THEN cur \o rstrip(new, Whitespace)
    ELSE cur \o new

\* An assistant message is appended at every continuation.
primed_appending(msgs, content) == Append(msgs, Msg("assistant", content))

\* "if messages[-1]["role"] == "assistant": messages[-1]["content"] = ...
\*  else: messages.append(dict(role="assistant", content=...))"
primed(msgs, content) ==
    IF msgs[Len(msgs)].role = "assistant"
    THEN [msgs EXCEPT ![Len(msgs)].content = content]
    ELSE Append(msgs, Msg("assistant", content))

\* The texts a reply can have when it stops.
Replies == {<<>>, <<"r">>, <<"r", " ">>, <<" ", "r">>}

\* What format_messages returns ends with the user's message or with the
\* reminder that follows it.
FormattedMessages ==
    {<<Msg("system", <<"main_system">>), Msg("user", <<"inp">>)>>,
     <<Msg("system", <<"main_system">>), Msg("user", <<"inp">>),
       Msg("system", <<"system_reminder">>)>>}

\* self.send(messages) was called, and the reply stopped with text new, for its
\* length or not.
Sent(msgs, new, length) ==
    [op |-> "send", paths |-> {}, ok |-> ~length, messages |-> msgs, reply |-> new]

SendInit ==
    /\ cfg \in Configs \cup {[c EXCEPT !.can_prefill = TRUE] : c \in Configs}
    /\ pc = "sending"
    /\ num_reflections \in 0..max_reflections
    /\ reflected_message = NoneMsg
    /\ last_keyboard_interrupt = NoTime
    /\ now = NoTime
    /\ abs_fnames = {"a"}
    /\ exists = {"a"}
    /\ tracked = IF cfg.use_git THEN {"a"} ELSE {}
    /\ dirty = {}
    /\ multi_response_content = <<>>
    /\ edited = {}
    /\ cur_messages = <<Msg("user", <<"inp">>)>>
    /\ send_cycles = 1
    /\ log = <<>>
    /\ reply_content = <<>>
    /\ extracted = NotExtracted
    /\ file_content = [path \in Paths |-> Unread]
    /\ last_aider_commit_hash = NoHash
    /\ aider_commit_hashes = {}
    /\ messages \in FormattedMessages
    /\ partial_response_content = <<>>
    /\ NoHistory
    /\ fence = fences[1]

\* The "finally" clause of the send loop.
finally_of_send(new) ==
    /\ partial_response_content' =
          get_multi_response_content(multi_response_content, new, TRUE)
    /\ multi_response_content' = <<>>

\* send returns: the reply is complete.
SendReturns ==
    /\ pc = "sending"
    /\ \E new \in Replies :
          /\ log' = Append(log, Sent(messages, new, FALSE))
          /\ finally_of_send(new)
    /\ pc' = "applying"
    /\ UNCHANGED <<cfg, fence, reply_content, extracted, num_reflections, reflected_message,
                   last_keyboard_interrupt, now, world, edited, cur_messages,
                   send_cycles, file_content, last_aider_commit_hash,
                   aider_commit_hashes, messages, summary>>

\* send raises FinishReasonLength: the reply stopped for its length.
SendStopsForLength ==
    /\ pc = "sending"
    /\ Count(log, "send") < MaxStops
    /\ \E new \in Replies :
          IF ~cfg.can_prefill
          THEN /\ log' = log \o <<Sent(messages, new, TRUE),
                                   Ev("tool_error: token limit", {}, FALSE)>>
               /\ finally_of_send(new)
               /\ pc' = "reflecting"
               /\ UNCHANGED messages
          ELSE \E content \in {get_multi_response_content(multi_response_content,
                                                          new, FALSE)} :
                  /\ log' = Append(log, Sent(messages, new, TRUE))
                  /\ multi_response_content' = content
                  /\ partial_response_content' = new
                  /\ messages' = primed(messages, content)
                  /\ pc' = "sending"
    /\ UNCHANGED <<cfg, fence, reply_content, extracted, num_reflections, reflected_message,
                   last_keyboard_interrupt, now, world, edited, cur_messages,
                   send_cycles, file_content, last_aider_commit_hash,
                   aider_commit_hashes, summary>>

SendNext == SendReturns \/ SendStopsForLength

SendSpec == SendInit /\ [][SendNext]_vars

\* Every send returns or raises.
FairSendSpec == SendSpec /\ WF_vars(SendNext)

----------------------------------------------------------------------------
\* The history and its summarization task: format_messages, the end of
\* send_new_user_message, and the thread that summarize_start starts. The thread
\* runs beside Coder.run, so that its steps come between the statements of
\* move_back_cur_messages.

\* The budget of the history, a message counting for one token.
max_chat_history_tokens == 3

\* ChatSummary.too_big
too_big(msgs) == Len(msgs) > max_chat_history_tokens

\* ChatSummary.summarize: an exchange that stands for the messages it was given.
summarize(msgs) ==
    <<Msg("user", <<"summary of", Len(msgs)>>), Msg("assistant", <<"Ok.", 0>>)>>

\* A task that was started when the history was at_start; read is what it was
\* given to summarize, and raised whether summarize raised ValueError.
Started(at_start) ==
    [state |-> "started", at_start |-> at_start, read |-> <<>>, raised |-> FALSE]

InFlight == {t \in 1..Len(workers) : workers[t].state # "finished"}

\* The history and the summarizer as one value.
History == [done |-> done_messages, thread |-> summarizer_thread,
            summarized |-> summarized_done_messages, workers |-> workers]

\* A join that does not wait for the thread.
thread_join_at_once(h) == TRUE

\* "self.summarizer_thread.join()" returns once the thread has finished.
thread_join(h) == h.workers[h.thread].state = "finished"

\* Coder.summarize_end can return.
summarize_end_returns(h) == IF h.thread = NoThread THEN TRUE ELSE thread_join(h)

\* A join that keeps the history when the task has raised.
summarize_end_keeping(h) ==
    IF h.thread = NoThread THEN h
    ELSE IF h.workers[h.thread].raised THEN [h EXCEPT !.thread = NoThread]
    ELSE [h EXCEPT !.thread = NoThread, !.done = h.summarized, !.summarized = <<>>]

\* Coder.summarize_end
summarize_end(h) ==
    IF h.thread = NoThread THEN h
    ELSE [h EXCEPT !.thread = NoThread, !.done = h.summarized, !.summarized = <<>>]

\* Coder.summarize_start can return.
summarize_start_returns(h) == IF too_big(h.done) THEN summarize_end_returns(h) ELSE TRUE

\* Coder.summarize_start
summarize_start(h) ==
    IF ~too_big(h.done) THEN h
    ELSE [summarize_end(h) EXCEPT
            !.workers = Append(@, Started(summarize_end(h).done)),
            !.thread = Len(h.workers) + 1]

become(h) ==
    /\ done_messages' = h.done
    /\ summarizer_thread' = h.thread
    /\ summarized_done_messages' = h.summarized
    /\ workers' = h.workers

\* The messages of turn n.
user_message(n) == Msg("user", <<"inp", n>>)
assistant_message(n) == Msg("assistant", <<"reply", n>>)
commit_exchange(n) == <<Msg("user", <<"commit", n>>), Msg("assistant", <<"Ok.", n>>)>>

\* utils.split_chat_history_markdown(history_md), when there is a history to
\* restore: of one exchange or of two.
Restored ==
    {<<>>,
     <<user_message(0), assistant_message(0)>>,
     <<user_message(0), assistant_message(0)>> \o commit_exchange(0)}

\* format_messages was called: the task it joined, the history before the join
\* and the history it read.
Formatted(joined, live, history) ==
    [op |-> "format_messages", paths |-> {}, ok |-> TRUE,
     joined |-> joined, live |-> live, history |-> history]

SummaryInit ==
    /\ cfg \in Configs
    /\ pc = "assembling"
    /\ num_reflections = 0
    /\ reflected_message = NoneMsg
    /\ last_keyboard_interrupt = NoTime
    /\ now = NoTime
    /\ abs_fnames = {"a"}
    /\ exists = {"a"}
    /\ tracked = IF cfg.use_git THEN {"a"} ELSE {}
    /\ dirty = {}
    /\ multi_response_content = 0
    /\ edited = {}
    /\ cur_messages = <<>>
    /\ send_cycles = 1
    /\ log = <<>>
    /\ reply_content = <<>>
    /\ extracted = NotExtracted
    /\ file_content = [path \in Paths |-> Unread]
    /\ last_aider_commit_hash = NoHash
    /\ aider_commit_hashes = {}
    /\ messages = <<>>
    /\ partial_response_content = <<>>
    /\ fence = fences[1]
    /\ \E restored \in Restored :
          \E h \in {summarize_start([done |-> restored, thread |-> NoThread,
                                     summarized |-> <<>>, workers |-> <<>>])} :
             /\ done_messages = h.done
             /\ summarizer_thread = h.thread
             /\ summarized_done_messages = h.summarized
             /\ workers = h.workers

\* send_new_user_message up to the end of the send loop: the user's message is
\* added to cur_messages, and format_messages joins the task before it reads the
\* history. run has emptied reflected_message before.
Assemble ==
    /\ pc = "assembling"
    /\ summarize_end_returns(History)
    /\ cur_messages' = Append(cur_messages, user_message(send_cycles))
    /\ \E h \in {summarize_end(History)} :
          /\ become(h)
          /\ messages' = <<Msg("system", <<"main_system", 0>>)>> \o h.done
                             \o cur_messages'
          /\ log' = Append(log, Formatted(summarizer_thread, done_messages, h.done))
    /\ reflected_message' = NoneMsg
    /\ pc' = "replied"
    /\ UNCHANGED <<cfg, fence, reply_content, extracted, num_reflections,
                   last_keyboard_interrupt, now, world, multi_response_content, edited,
                   send_cycles, file_content, last_aider_commit_hash,
                   aider_commit_hashes, partial_response_content>>

\* The diagnostics of a send that fails.
SendFailures ==
    {"tool_error: BadRequestError", "tool_error: Unexpected error", "tool_error: token limit"}

\* The send ends as a bad request, an unexpected error or an exhausted context:
\* send_new_user_message returns after the diagnostic.
SendFails ==
    /\ pc = "replied"
    /\ send_cycles < MaxTurns
    /\ \E op \in SendFailures : log' = Append(log, Ev(op, {}, FALSE))
    /\ edited' = {}
    /\ send_cycles' = send_cycles + 1
    /\ pc' = "assembling"
    /\ UNCHANGED <<cfg, fence, reply_content, extracted, num_reflections, reflected_message,
                   last_keyboard_interrupt, now, world, multi_response_content,
                   cur_messages, file_content, last_aider_commit_hash,
                   aider_commit_hashes, messages, partial_response_content, summary>>

\* How a cycle ends without move_back_cur_messages: the reply had no edit;
\* apply_updates, the lint step or the test step set reflected_message; or ^C
\* came, during the send or after the edits.
Endings ==
    {[why |-> "no edit", applied |-> {}, reflected |-> NoneMsg],
     [why |-> "diagnostic", applied |-> {}, reflected |-> no_filename],
     [why |-> "lint", applied |-> {"a"}, reflected |-> <<"lint_errors">>],
     [why |-> "test", applied |-> {"a"}, reflected |-> <<"test_errors">>],
     [why |-> "^C in send", applied |-> {}, reflected |-> NoneMsg],
     [why |-> "^C after the edits", applied |-> {"a"}, reflected |-> NoneMsg]}

\* The cycle ends without move_back_cur_messages. The reply is added to
\* cur_messages (update_cur_messages, or the interrupted branch of the send),
\* but not when ^C leaves send_new_user_message after the edits.
NothingEdited ==
    /\ pc = "replied"
    /\ send_cycles < MaxTurns
    /\ \E end \in Endings :
          /\ edited' = end.applied
          /\ reflected_message' = end.reflected
          /\ cur_messages' = IF end.why = "^C after the edits" THEN cur_messages
                             ELSE Append(cur_messages, assistant_message(send_cycles))
          /\ log' = IF end.why \in {"^C in send", "^C after the edits"}
                    THEN Append(log, SigInt)
                    ELSE log
    /\ send_cycles' = send_cycles + 1
    /\ pc' = "assembling"
    /\ UNCHANGED <<cfg, fence, reply_content, extracted, num_reflections,
                   last_keyboard_interrupt, now, world, multi_response_content,
                   file_content, last_aider_commit_hash,
                   aider_commit_hashes, messages, partial_response_content, summary>>

\* update_cur_messages(edited) with edits applied, and move_back_cur_messages up
\* to the start of the thread.
MoveBackCurMessages ==
    /\ pc = "replied"
    /\ cur_messages' = Append(cur_messages,
                              Msg("assistant", <<"redacted_edit_message", send_cycles>>))
    /\ \E h \in {[History EXCEPT !.done = @ \o cur_messages']} :
          /\ summarize_start_returns(h)
          /\ become(summarize_start(h))
    /\ edited' = {"a"}
    /\ pc' = "moving back"
    /\ UNCHANGED <<cfg, fence, reply_content, extracted, num_reflections, reflected_message,
                   last_keyboard_interrupt, now, world, multi_response_content,
                   send_cycles, log, file_content, last_aider_commit_hash,
                   aider_commit_hashes, messages, partial_response_content>>

\* The history without the commit-notice exchange.
saved_message_dropped(done, n) == done

\* "if message: self.done_messages += [...]": saved_message is what auto_commit
\* returned or the text of the prompts for edits without a repository, a text
\* in every case.
saved_message_appended(done, n) == done \o commit_exchange(n)

\* The rest of move_back_cur_messages.
MoveBackMessage ==
    /\ pc = "moving back"
    /\ send_cycles < MaxTurns
    /\ done_messages' = saved_message_appended(done_messages, send_cycles)
    /\ cur_messages' = <<>>
    /\ send_cycles' = send_cycles + 1
    /\ pc' = "assembling"
    /\ UNCHANGED <<cfg, fence, reply_content, extracted, num_reflections, reflected_message,
                   last_keyboard_interrupt, now, world, multi_response_content, edited,
                   log, file_content, last_aider_commit_hash, aider_commit_hashes,
                   messages, partial_response_content,
                   summarizer_thread, summarized_done_messages, workers>>

\* summarize_worker reads self.done_messages.
WorkerReads ==
    /\ \E t \in 1..Len(workers) :
          /\ workers[t].state = "started"
          /\ workers' = [workers EXCEPT ![t].state = "read", ![t].read = done_messages]
    /\ UNCHANGED <<cfg, fence, pc, reply_content, extracted, num_reflections, reflected_message,
                   last_keyboard_interrupt, now, world, multi_response_content, edited,
                   cur_messages, send_cycles, log, file_content, last_aider_commit_hash,
                   aider_commit_hashes, messages, partial_response_content,
                   done_messages, summarizer_thread, summarized_done_messages>>

\* summarize returns, or raises ValueError, and summarize_worker ends.
WorkerFinishes ==
    /\ \E t \in 1..Len(workers) :
          /\ workers[t].state = "read"
          /\ \E raised \in BOOLEAN :
                /\ workers' = [workers EXCEPT ![t].state = "finished",
                                              ![t].raised = raised]
                /\ IF raised
                   THEN /\ log' = Append(log, Ev("tool_error: summarize", {}, FALSE))
                        /\ UNCHANGED summarized_done_messages
                   ELSE /\ summarized_done_messages' = summarize(workers[t].read)
                        /\ UNCHANGED log
    /\ UNCHANGED <<cfg, fence, pc, reply_content, extracted, num_reflections, reflected_message,
                   last_keyboard_interrupt, now, world, multi_response_content, edited,
                   cur_messages, send_cycles, file_content, last_aider_commit_hash,
                   aider_commit_hashes, messages, partial_response_content,
                   done_messages, summarizer_thread>>

SummaryNext ==
    \/ Assemble
    \/ SendFails
    \/ NothingEdited
    \/ MoveBackCurMessages
    \/ MoveBackMessage
    \/ WorkerReads
    \/ WorkerFinishes

SummarySpec == SummaryInit /\ [][SummaryNext]_vars

----------------------------------------------------------------------------
\* choose_fence by itself. A text is the sequence of its pieces: the markers of
\* the fences that occur in it, and other text. No marker holds a line end, and
\* none is part of another.

\* The files of the chat, whether they can be read or not.
readable_or_not(fnames, on_disk) == fnames

\* Coder.get_abs_fnames_content: the files of the chat that can be read.
readable(fnames, on_disk) == fnames \cap on_disk

\* A total order on the paths, for "for fname in list(self.abs_fnames)".
RECURSIVE in_order(_)
in_order(fnames) ==
    IF fnames = {} THEN <<>>
    ELSE IF "a" \in fnames THEN <<"a">> \o in_order(fnames \ {"a"})
    ELSE <<CHOOSE f \in fnames : TRUE>> \o in_order(fnames \ {CHOOSE f \in fnames : TRUE})

\* "all_content += content + "\n"" over the files that can be read.
RECURSIVE all_content(_, _)
all_content(fnames, texts) ==
    IF fnames = <<>> THEN <<>>
    ELSE texts[Head(fnames)] \o <<"\n">> \o all_content(Tail(fnames), texts)

\* Python's "marker in text".
occurs(marker, text) == \E i \in 1..Len(text) : text[i] = marker

\* The test of the opening marker alone.
bad_fence_by_opening(k, text) == occurs(fences[k][1], text)

\* "if fence_open in all_content or fence_close in all_content: continue"
bad_fence(k, text) == occurs(fences[k][1], text) \/ occurs(fences[k][2], text)

\* The loop of choose_fence and what follows it: the fence, and whether the
\* diagnostic is made.
choose_fence(text) ==
    LET good == {k \in 1..Len(fences) : ~bad_fence(k, text)}
    IN  IF good # {}
        THEN [fence |-> fences[CHOOSE k \in good : \A j \in good : k <= j],
              fell_back |-> FALSE]
        ELSE [fence |-> fences[1], fell_back |-> TRUE]

\* The markers of the first k fences, of one side.
Marks(k, side) == [i \in 1..k |-> fences[i][side]]

FenceTexts ==
    {Marks(k, side) : k \in 0..Len(fences), side \in 1..2}
    \cup {<<fences[k][side]>> : k \in 1..Len(fences), side \in 1..2}
    \cup {<<"text">>, <<"text", fences[2][2], "text">>}

FenceInit ==
    /\ cfg \in {c \in Configs : Cardinality(Deviations(c)) = 0}
    /\ pc = "choosing"
    /\ num_reflections = 0
    /\ reflected_message = NoneMsg
    /\ last_keyboard_interrupt = NoTime
    /\ now = NoTime
    /\ abs_fnames \in SUBSET Paths
    /\ exists \in {Paths, {"a"}}
    /\ tracked = {}
    /\ dirty = {}
    /\ multi_response_content = 0
    /\ edited = {}
    /\ cur_messages = <<>>
    /\ send_cycles = 1
    /\ log = <<>>
    /\ reply_content = <<>>
    /\ extracted = NotExtracted
    /\ file_content \in [Paths -> FenceTexts]
    /\ last_aider_commit_hash = NoHash
    /\ aider_commit_hashes = {}
    /\ messages = <<>>
    /\ partial_response_content = <<>>
    /\ NoHistory
    /\ fence = fences[1]

\* Coder.choose_fence
ChooseFence ==
    /\ pc = "choosing"
    /\ abs_fnames' = readable(abs_fnames, exists)
    /\ \E chosen \in {choose_fence(all_content(in_order(abs_fnames'), file_content))} :
          /\ fence' = chosen.fence
          /\ log' = (IF abs_fnames' # abs_fnames
                     THEN <<Ev("tool_error: Dropping from the chat",
                               abs_fnames \ abs_fnames', FALSE)>>
                     ELSE <<>>)
                    \o (IF chosen.fell_back
                        THEN <<Ev("tool_error: Unable to find a fencing strategy", {}, FALSE)>>
                        ELSE <<>>)
    /\ pc' = "chosen"
    /\ UNCHANGED <<cfg, reply_content, extracted, num_reflections, reflected_message,
                   last_keyboard_interrupt, now, exists, tracked, dirty,
                   multi_response_content, edited, cur_messages, send_cycles,
                   file_content, last_aider_commit_hash, aider_commit_hashes,
                   messages, partial_response_content, summary>>

FenceSpec == FenceInit /\ [][ChooseFence]_vars

----------------------------------------------------------------------------
\* format_messages by itself. The content of a message is the sequence of its
\* pieces: the prompts by their names, and the texts put between them.

\* What format_messages depends on besides the coder's messages and files: the
\* model (examples_as_sys_msg, reminder_as_sys_msg, accepts_images, whether it
\* counts tokens, whether it has an input-token limit and which), whether the
\* prompts have examples, whether there is a repository map, and whether the
\* file a is an image.
FormatConfigs ==
    {c \in [examples : BOOLEAN, examples_as_sys_msg : BOOLEAN,
            reminder_as_sys_msg : BOOLEAN, accepts_images : BOOLEAN,
            image : BOOLEAN, repo_map : BOOLEAN, counts_tokens : BOOLEAN,
            limited : BOOLEAN, max_input_tokens : {0, 6, 9, MaxInputTokens}] :
        c.limited <=> c.max_input_tokens # 0}

\* fmt_system_prompt(self.gpt_prompts.system_reminder[self.language])
system_reminder == <<"system_reminder">>

\* self.gpt_prompts.example_messages[self.language]
example_messages(c) ==
    IF c.examples
    THEN <<Msg("user", <<"example request">>), Msg("assistant", <<"example reply">>)>>
    ELSE <<>>

\* role.upper()
upper(role) == IF role = "user" THEN "USER" ELSE "ASSISTANT"

\* "for msg in example_messages: main_sys += f"## {role.upper()}: {content}\n\n""
RECURSIVE examples_as_text(_)
examples_as_text(msgs) ==
    IF msgs = <<>> THEN <<>>
    ELSE <<"## ", upper(Head(msgs).role), ": ">> \o Head(msgs).content
         \o <<"\n", "\n">> \o examples_as_text(Tail(msgs))

\* The first message of format_messages.
main_sys(c) ==
    (IF c.examples_as_sys_msg
     THEN strip(<<"main_system">>
                \o (IF example_messages(c) # <<>>
                    THEN <<"\n", "# Example conversations:", "\n", "\n">>
                    ELSE <<>>)
                \o examples_as_text(example_messages(c)),
                {" ", "\n"})
     ELSE <<"main_system">>)
    \o <<"\n">> \o system_reminder

\* The example messages of format_messages, with the exchange that ends them.
example_exchanges(c) ==
    IF c.examples_as_sys_msg \/ example_messages(c) = <<>> THEN <<>>
    ELSE example_messages(c)
         \o <<Msg("user", <<"I switched to a new code base.">>),
              Msg("assistant", <<"Ok.">>)>>

\* Coder.get_files_content: the files of the chat that are no images, each
\* between the markers of the fence.
RECURSIVE get_files_content(_, _, _, _)
get_files_content(c, fnames, texts, fence_) ==
    IF fnames = <<>> THEN <<>>
    ELSE (IF c.image /\ Head(fnames) = "a" THEN <<>>
          ELSE <<"\n", Head(fnames), "\n", fence_[1], "\n">> \o texts[Head(fnames)]
               \o <<fence_[2], "\n">>)
         \o get_files_content(c, Tail(fnames), texts, fence_)

\* Coder.get_images_message, and the reply that follows it.
images_exchange(c, fnames) ==
    IF c.accepts_images /\ c.image /\ "a" \in fnames
    THEN <<Msg("user", <<"image_url">>), Msg("assistant", <<"Ok.">>)>>
    ELSE <<>>

repo_exchange(c) ==
    IF c.repo_map
    THEN <<Msg("user", <<"repo_content">>), Msg("assistant", <<"repo_content_reply">>)>>
    ELSE <<>>

files_exchange(c, fnames, texts, fence_) ==
    IF fnames # {}
    THEN <<Msg("user", <<"files_content_prefix">>
                       \o get_files_content(c, in_order(fnames), texts, fence_)),
           Msg("assistant", <<"files_reply">>)>>
    ELSE IF c.repo_map
    THEN <<Msg("user", <<"files_no_full_files_with_repo_map">>),
           Msg("assistant", <<"files_no_full_files_with_repo_map_reply">>)>>
    ELSE <<Msg("user", <<"files_no_full_files">>), Msg("assistant", <<"Ok.">>)>>

\* The messages about the files with those of the repository map after them.
get_files_messages_map_last(c, fnames, texts, fence_) ==
    files_exchange(c, fnames, texts, fence_) \o repo_exchange(c)
    \o images_exchange(c, fnames)

\* Coder.get_files_messages
get_files_messages(c, fnames, texts, fence_) ==
    repo_exchange(c) \o files_exchange(c, fnames, texts, fence_)
    \o images_exchange(c, fnames)

\* self.main_model.token_count(messages), when the model counts tokens: one
\* token a message.
token_count(msgs) == Len(msgs)

\* "total_tokens = messages_tokens + reminder_tokens + cur_tokens", or 0 when a
\* count is None.
total_tokens(c, msgs, cur) ==
    IF c.counts_tokens
    THEN token_count(msgs) + token_count(<<Msg("system", system_reminder)>>)
         + token_count(cur)
    ELSE 0

\* Room for the reminder up to the limit itself.
room_for_reminder_at_limit(c, total) == ~c.limited \/ total <= c.max_input_tokens

\* "if max_input_tokens is None or total_tokens < max_input_tokens"
room_for_reminder(c, total) == ~c.limited \/ total < c.max_input_tokens

\* What format_messages does with the reminder.
with_reminder(c, msgs) ==
    IF c.reminder_as_sys_msg THEN Append(msgs, Msg("system", system_reminder))
    ELSE IF msgs[Len(msgs)].role = "user"
    THEN [msgs EXCEPT ![Len(msgs)].content = @ \o <<"\n", "\n">> \o system_reminder]
    ELSE msgs

\* Coder.format_messages, after choose_fence and summarize_end.
format_messages(c, fnames, texts, fence_, done, cur) ==
    LET before == <<Msg("system", main_sys(c))>> \o example_exchanges(c) \o done
                  \o get_files_messages(c, fnames, texts, fence_)
    IN  IF room_for_reminder(c, total_tokens(c, before, cur))
        THEN with_reminder(c, before \o cur)
        ELSE before \o cur

FormatInit ==
    /\ cfg \in FormatConfigs
    /\ pc = "formatting"
    /\ num_reflections = 0
    /\ reflected_message = NoneMsg
    /\ last_keyboard_interrupt = NoTime
    /\ now = NoTime
    /\ abs_fnames \in {{}, {"a"}, Paths}
    /\ exists \in {Paths, {"a"}}
    /\ tracked = {}
    /\ dirty = {}
    /\ multi_response_content = 0
    /\ edited = {}
    /\ cur_messages \in
          {<<Msg("user", <<"inp">>)>>,
           <<Msg("user", <<"inp">>), Msg("assistant", <<"reply">>),
             Msg("user", <<"reflected_message">>)>>}
    /\ send_cycles = 1
    /\ log = <<>>
    /\ reply_content = <<>>
    /\ extracted = NotExtracted
    /\ file_content \in [Paths -> {<<"text">>, <<fences[1][1]>>}]
    /\ last_aider_commit_hash = NoHash
    /\ aider_commit_hashes = {}
    /\ messages = <<>>
    /\ partial_response_content = <<>>
    /\ done_messages \in
          {<<>>, <<Msg("user", <<"earlier inp">>), Msg("assistant", <<"earlier reply">>)>>}
    /\ summarizer_thread = NoThread
    /\ summarized_done_messages = <<>>
    /\ workers = <<>>
    /\ fence = fences[1]

\* Coder.format_messages
FormatMessages ==
    /\ pc = "formatting"
    /\ abs_fnames' = readable(abs_fnames, exists)
    /\ \E chosen \in {choose_fence(all_content(in_order(abs_fnames'), file_content))} :
          /\ fence' = chosen.fence
          /\ log' = (IF abs_fnames' # abs_fnames
                     THEN <<Ev("tool_error: Dropping from the chat",
                               abs_fnames \ abs_fnames', FALSE)>>
                     ELSE <<>>)
                    \o (IF chosen.fell_back
                        THEN <<Ev("tool_error: Unable to find a fencing strategy", {}, FALSE)>>
                        ELSE <<>>)
    /\ summarize_end_returns(History)
    /\ become(summarize_end(History))
    /\ messages' = format_messages(cfg, abs_fnames', file_content, fence',
                                   done_messages', cur_messages)
    /\ pc' = "formatted"
    /\ UNCHANGED <<cfg, reply_content, extracted, num_reflections, reflected_message,
                   last_keyboard_interrupt, now, exists, tracked, dirty,
                   multi_response_content, edited, cur_messages, send_cycles,
                   file_content, last_aider_commit_hash, aider_commit_hashes,
                   partial_response_content>>

FormatSpec == FormatInit /\ [][FormatMessages]_vars

----------------------------------------------------------------------------
\* Properties.

\* C1: in every reachable state of Coder.run, whatever the inputs, reflections,
\* failures and interrupts, 0 <= num_reflections <= max_reflections.
C1_ReflectionsWithinBounds ==
    num_reflections >= 0 /\ num_reflections <= max_reflections

\* The limit is reached with one more message waiting to be reflected.
C1_AtTheLimit ==
    pc = "reflecting" /\ Truthy(reflected_message) /\ num_reflections = max_reflections

\* C2 as stated: num_reflections changes only by +1 in Reflecting -> Sending and
\* by a reset to 0 in the step that starts a turn from direct input (Idle ->
\* Sending, or the start of run with a message).
C2_ResetOnlyWhenInputIsSent ==
    [][num_reflections' # num_reflections =>
          \/ pc = "reflecting" /\ pc' = "sending" /\ num_reflections' = num_reflections + 1
          \/ pc \in {"idle", "start"} /\ pc' = "sending" /\ num_reflections' = 0]_vars

\* C2, amended: num_reflections is incremented by exactly 1 in every step
\* Reflecting -> Sending and in no other; it is reset to 0 by init_before_message
\* at the top of every round of run's outer loop, before the input is waited for,
\* so it is 0 whenever run waits for input; no other step changes it.
C2_CountChanges ==
    /\ [](pc = "idle" => num_reflections = 0)
    /\ [][/\ num_reflections' # num_reflections =>
               \/ pc = "reflecting" /\ pc' = "sending"
               \/ pc = "start" /\ pc' # "start"
          /\ pc = "reflecting" /\ pc' = "sending" =>
               num_reflections' = num_reflections + 1
          /\ pc = "start" /\ pc' # "start" => num_reflections' = 0]_vars

\* A turn that reflected twice has ended and run is back at the top of its loop,
\* the count not yet reset and no input read.
C2_CountedTurnOver ==
    pc = "start" /\ num_reflections = 2

\* The turn is under way: run is not waiting for input and has not ended.
InTurn == pc \notin {"idle", "returned", "exited"}

\* C3: one direct input makes at most max_reflections + 1 send cycles (the
\* continuations of a length-limited reply not counted); with a payload pending at
\* num_reflections = max_reflections nothing more is sent, the limit's diagnostic
\* is printed and run goes back to wait for input; and, every send returning,
\* every turn ends.
C3_TurnsAreBounded ==
    /\ [](send_cycles <= max_reflections + 1)
    /\ [][pc = "reflecting" /\ Truthy(reflected_message)
             /\ num_reflections = max_reflections =>
               /\ pc' = end_of_turn
               /\ log' = Append(log, Ev("tool_error: Only 3 reflections allowed", {}, FALSE))
               /\ send_cycles' = send_cycles
               /\ cur_messages' = cur_messages]_vars
    /\ (InTurn ~> ~InTurn)

\* The turn was stopped by the limit after max_reflections + 1 send cycles.
C3_StoppedAtTheLimit ==
    /\ pc \in {"start", "returned"}
    /\ Has(log, "tool_error: Only 3 reflections allowed")
    /\ send_cycles = max_reflections + 1

\* A send cycle that a ^C during the send ended and that has not yet returned to
\* the top of run's loop (a ^C anywhere else goes straight there, or exits).
InterruptedSend ==
    Has(log, "KeyboardInterrupt") /\ pc \notin {"start", "returned", "exited"}

\* C4: one ^C while the reply is streamed ends the cycle: nothing is extracted,
\* gated or written, no lint, test or commit runs, no reflection payload is set,
\* the partial text is recorded as one assistant message, and the turn ends.
C4_InterruptedSendEndsTheTurn ==
    /\ [](InterruptedSend =>
            /\ pc = "reflecting"
            /\ Ops(log) \subseteq {"KeyboardInterrupt", "tool_error: ^C again to exit",
                                    "send: primed continuation"}
            /\ edited = {}
            /\ reflected_message = NoneMsg
            /\ Len(cur_messages) = 2
            /\ cur_messages[1].role = "user"
            /\ cur_messages[2] =
                  Msg("assistant", <<"partial_response_content", "^C KeyboardInterrupt">>))
    /\ [][InterruptedSend =>
             /\ pc' = end_of_turn
             /\ UNCHANGED <<world, log, num_reflections, cur_messages>>]_vars

\* The interrupted cycle has returned to run.
C4_Interrupted ==
    InterruptedSend /\ pc = "reflecting"

----------------------------------------------------------------------------
\* The gate's decisions and the writes of a batch, read from the log.

\* The paths allowed_to_edit returned ret for.
Decided(l, ret) ==
    UNION {l[i].paths : i \in {j \in 1..Len(l) : l[j].op = "allowed_to_edit" /\ l[j].ok = ret}}

Approved(l) == Decided(l, TRUE)
Refused(l) == Decided(l, FALSE)
Written(l) == PathsOf(l, "write")

\* update_files raised a GitCommandError, or an exception apply_updates does not
\* classify.
GitFailed(l) == Has(l, "tool_error: git")
ExceptionRaised(l) == Has(l, "tool_error: Exception while updating files")
GateFailed(l) == GitFailed(l) \/ ExceptionRaised(l)

\* What a step appended to the log.
Appended(l, m) == IF Len(m) >= Len(l) THEN SubSeq(m, Len(l) + 1, Len(m)) ELSE <<>>

\* The step is the user's ^C.
Interrupts == Has(Appended(log, log'), "KeyboardInterrupt")

\* The user accepted the offer to fix the lint errors.
LintFixAccepted(l) ==
    \E i \in 1..Len(l) : l[i].op = "confirm: Attempt to fix lint errors" /\ l[i].ok

\* The steps of the cycle that come after apply_updates.
LaterSteps == {"lint", "test", "commit: auto", "get_file_mentions"}

C7_GateFailureEndsTheTurn ==
    /\ [](GateFailed(log) =>
            /\ ~Truthy(reflected_message)
            /\ Ops(log) \cap LaterSteps = {})
    /\ [][GateFailed(log) /\ pc = "reflecting" => pc' # "sending"]_vars

\* C7, amended: both failures end the batch with a diagnostic, with nothing
\* reported as edited, so that no lint, test or commit runs in the cycle. A failed
\* git command sets no payload, and the cycle goes on to the scan of the reply
\* (unless a ^C comes first), which can set one. The text of an unclassified
\* exception becomes the payload: the cycle returns at once, without the scan,
\* and run sends the text again as the next user message while num_reflections <
\* max_reflections; an empty text is no payload and the cycle goes on as after a
\* failed git command.
C7_GateFailure ==
    /\ [](GateFailed(log) =>
            /\ edited = {}
            /\ Ops(log) \cap {"lint", "test", "commit: auto"} = {})
    /\ [](Has(log, "tool_error: exception text") /\ pc \notin {"start", "returned", "exited"} =>
            /\ pc = "reflecting"
            /\ reflected_message = <<"exception text">>
            /\ ~Has(log, "get_file_mentions"))
    /\ [][/\ pc = "applying" /\ (GitFailed(log') \/ Has(log', "tool_error: (empty text)")) =>
               /\ pc' = "linting"
               /\ ~Truthy(reflected_message')
          /\ GateFailed(log) /\ pc = "scanning" /\ ~Interrupts =>
               /\ pc' = "reflecting"
               /\ Has(log', "get_file_mentions")
          /\ GateFailed(log) /\ pc = "reflecting" /\ Truthy(reflected_message) =>
               IF num_reflections < max_reflections
               THEN /\ pc' = "sending"
                    /\ cur_messages' = <<Msg("user", reflected_message)>>
               ELSE pc' = end_of_turn]_vars

\* The text of an exception raised in the gate or the writes has been sent to the
\* model as the next user message.
C7_ExceptionTextResent ==
    pc = "sending" /\ cur_messages = <<Msg("user", <<"exception text">>)>>

\* The diagnostics of a send that failed.
SendDiagnostics ==
    {"tool_error: BadRequestError", "tool_error: Unexpected error", "tool_error: token limit"}

SendFailed(l) == Ops(l) \cap SendDiagnostics # {}

\* C8: a send that fails with a bad request, an unexpected error or an exhausted
\* context ends the turn with its diagnostic: nothing is extracted, gated or
\* written, no payload is set and nothing is sent again.
C8_FailedSendEndsTheTurn ==
    /\ [](SendFailed(log) =>
            /\ pc \in {"reflecting", "start", "returned"}
            /\ Ops(log) \subseteq SendDiagnostics \cup {"send: primed continuation"}
            /\ Cardinality(Ops(log) \cap SendDiagnostics) = 1
            /\ edited = {}
            /\ reflected_message = NoneMsg
            /\ Len(cur_messages) = 1 /\ cur_messages[1].role = "user")
    /\ [][SendFailed(log') /\ ~SendFailed(log) => pc = "sending" /\ UNCHANGED world]_vars
    /\ [][SendFailed(log) /\ pc = "reflecting" =>
             /\ pc' = end_of_turn
             /\ UNCHANGED <<world, log, num_reflections, send_cycles, cur_messages>>]_vars

\* A send failed with a bad request and the turn is over.
C8_BadRequestEnded ==
    pc = "start" /\ Has(log, "tool_error: BadRequestError")

\* The parser raised on the reply.
ParseFailed(l) == Has(l, "tool_error: did not conform")

\* C9: when the parser fails nothing is gated, written, linted, tested or
\* committed in the cycle; the parser's text is the payload apply_updates leaves,
\* without touching the count; and run decides: it sends the text as the next
\* user message while num_reflections < max_reflections and ends the turn with
\* the limit's diagnostic otherwise.
C9_ParseFailureIsReflected ==
    /\ [](ParseFailed(log) =>
            /\ pc \in {"reflecting", "start", "returned"}
            /\ Ops(log) \subseteq {"send: primed continuation", "tool_error: did not conform",
                                    "tool_error: No filename provided before fence",
                                    "tool_error: Only 3 reflections allowed"}
            /\ edited = {}
            /\ (pc = "reflecting" => reflected_message = no_filename))
    /\ [][/\ ParseFailed(log') /\ ~ParseFailed(log) =>
               /\ pc = "applying" /\ pc' = "reflecting"
               /\ UNCHANGED <<world, num_reflections, send_cycles>>
          /\ ParseFailed(log) /\ pc = "reflecting" =>
               IF num_reflections < max_reflections
               THEN /\ pc' = "sending"
                    /\ num_reflections' = num_reflections + 1
                    /\ cur_messages' = <<Msg("user", no_filename)>>
               ELSE /\ pc' = end_of_turn
                    /\ Has(log', "tool_error: Only 3 reflections allowed")
                    /\ UNCHANGED <<num_reflections, send_cycles>>]_vars

\* The parser's text has been sent to the model as the next user message.
C9_ParserTextResent ==
    pc = "sending" /\ cur_messages = <<Msg("user", no_filename)>> /\ num_reflections = 1

\* C10: the lint step goes to the reflection if and only if apply_updates
\* reported edits, the linter found errors in them and the user accepted the
\* offer to fix them; the payload is then the lint errors and the cycle has
\* made no auto-commit; in every other case the cycle goes on to the test step
\* and reflected_message is as it was.
C10_LintReflection ==
    /\ [][pc = "linting" /\ pc' \in {"reflecting", "testing"} =>
             LET did == Appended(log, log')
                 failed == \E i \in 1..Len(did) : did[i].op = "lint" /\ ~did[i].ok
                 accepted == \E i \in 1..Len(did) :
                                did[i].op = "confirm: Attempt to fix lint errors" /\ did[i].ok
             IN /\ pc' = "reflecting" <=> (edited # {} /\ failed /\ accepted)
                /\ pc' = "reflecting" =>
                      /\ reflected_message' = <<"lint_errors">>
                      /\ PathsOf(did, "lint") = edited
                /\ pc' = "testing" => reflected_message' = reflected_message]_vars
    /\ [](pc = "reflecting" /\ LintFixAccepted(log) =>
            /\ reflected_message = <<"lint_errors">>
            /\ Ops(log) \cap {"test", "commit: auto", "get_file_mentions"} = {})

\* Lint errors in an edit that was written are about to be reflected.
C10_LintErrorsReflected ==
    /\ pc = "reflecting"
    /\ reflected_message = <<"lint_errors">>
    /\ Written(log) # {}

TestFixAccepted(l) ==
    \E i \in 1..Len(l) : l[i].op = "confirm: Attempt to fix test errors" /\ l[i].ok

----------------------------------------------------------------------------
\* Properties of the parser (ParseSpec).

\* The files that were in the chat when get_edits read the text.
chat_files == extracted.chat_files

\* The candidates of get_edits before the duplicates are dropped, and the ones it
\* returned.
Candidates == {extracted.edits[k] : k \in 1..Len(extracted.edits)}
Returned == {extracted.returned[k] : k \in 1..Len(extracted.returned)}

\* C11 as stated: the file name of a block is taken from the nearest line before
\* its opening fence that is not blank, blank lines in between or not: if that
\* line, stripped, is not empty, it is the path of the candidate (or the last
\* component of that path is), whose confidence is explicit-header.
C11_HeaderIsNearestNonBlankLine ==
    \A e \in Candidates :
        LET named == header_of(nearest_nonblank_before(reply_content, e.at))
        IN named # <<>> => e.path \in {named, basename(named)} /\ e.source = "block"

\* C11: the file name of a block is taken from the line immediately before its
\* opening fence: if that line, stripped of whitespace, asterisks, trailing
\* colons and backticks, is not empty, it is the path of the candidate (its last
\* component instead, when the path is not a file of the chat and its last
\* component is one), whose confidence is explicit-header; a block whose opening
\* fence is the first line, or follows a blank line, has no header.
C11_HeaderIsTheLineBefore ==
    \A e \in Candidates :
        LET named == IF e.at > 1 THEN header_of(reply_content[e.at - 1]) ELSE <<>>
        IN /\ e.source = "block" <=> named # <<>>
           /\ named # <<>> =>
                e.path = IF named \notin chat_files /\ basename(named) \in chat_files
                         THEN basename(named)
                         ELSE named

\* A block whose header line is separated from the opening fence by a blank line:
\* its candidate is not an explicit-header one.
C11_BlankLineAfterHeader ==
    \E e \in Candidates :
        /\ e.at > 2
        /\ reply_content[e.at - 1] = <<>>
        /\ header_of(reply_content[e.at - 2]) # <<>>
        /\ e.source # "block"

\* The files of the chat that a line quotes in backticks as a word.
mentions_of(line) ==
    LET words == split(strip(line, Whitespace), <<>>, <<>>)
    IN {f \in chat_files :
           \E k \in 1..Len(words) : rstrip(words[k], {".", ":", ",", ";", "!"}) = quoted(f)}

\* The first line after the block before candidate k of get_edits (the first line
\* of the text for the first candidate).
after_previous_block(k) ==
    IF k = 1 THEN 1
    ELSE extracted.edits[k - 1].at + Len(extracted.edits[k - 1].new_lines) + 2

\* The lines between the block before candidate k and the opening fence of
\* candidate k that quote a file of the chat.
mentions_before(k) ==
    {j \in after_previous_block(k)..(extracted.edits[k].at - 1) :
        mentions_of(reply_content[j]) # {}}

Max(set) == CHOOSE j \in set : \A other \in set : other <= j

\* C12 as stated: a block without a header, before which some line of the text
\* quoted exactly one file of the chat, gets that file with confidence
\* inferred-from-mention.
C12_AnyEarlierMention ==
    \A e \in Candidates :
        LET quoted_before == UNION {mentions_of(reply_content[j]) : j \in 1..(e.at - 1)}
        IN e.source # "block" /\ Cardinality(quoted_before) = 1 =>
              e.source = "saw" /\ e.path \in quoted_before

\* C12: a block without a header gets confidence inferred-from-mention exactly
\* when a line outside the blocks, after the block before it closed (after the
\* start of the text for the first block), quoted a file of the chat in backticks
\* as a word; its path is the file quoted by the last such line. The sole-file
\* default is not used then, also when one file is in the chat.
C12_MentionSinceTheLastBlock ==
    \A k \in 1..Len(extracted.edits) :
        LET e == extracted.edits[k]
        IN e.source # "block" =>
              /\ e.source = "saw" <=> mentions_before(k) # {}
              /\ e.source = "saw" =>
                    e.path \in mentions_of(reply_content[Max(mentions_before(k))])

\* One file in the chat: a block that got it from a mention, and a later block
\* that got it by default, the mention being before the block in between.
C12_MentionThenDefault ==
    /\ Cardinality(chat_files) = 1
    /\ \E e1, e2 \in Candidates :
          /\ e1.source = "saw"
          /\ e2.source = "chat"
          /\ e1.at < e2.at

\* The header of candidate k of get_edits: the line before its opening fence,
\* stripped; empty if there is no such line.
header_before(k) ==
    IF extracted.edits[k].at > 1
    THEN header_of(reply_content[extracted.edits[k].at - 1])
    ELSE <<>>

\* C13: with exactly one file in the chat get_edits does not fail, and a block
\* without a header and without a mention that applies gets that file with
\* confidence sole-file-default; no other block has this confidence.
C13_SoleFileDefault ==
    /\ extracted.done /\ Cardinality(chat_files) = 1 => extracted.raised = ""
    /\ \A k \in 1..Len(extracted.edits) :
          LET e == extracted.edits[k]
          IN e.source = "chat" <=>
                /\ header_before(k) = <<>>
                /\ mentions_before(k) = {}
                /\ Cardinality(chat_files) = 1
                /\ e.path \in chat_files

\* A block after a blank line, with no mention before it and one file in the
\* chat, got that file by default.
C13_DefaultedAfterBlankLine ==
    \E k \in 1..Len(extracted.edits) :
        /\ extracted.edits[k].source = "chat"
        /\ extracted.edits[k].at > 1
        /\ reply_content[extracted.edits[k].at - 1] = <<>>
        /\ chat_files = {extracted.edits[k].path}

\* The events of the gate, of the file system and of git.
EditEvents ==
    {"allowed_to_edit", "confirm: Allow creation", "confirm: Allow edits",
     "tool_error: Skipping edits", "touch", "git_add", "write", "commit: dirty",
     "tool_output: Applied edit", "tool_output: Did not apply edit"}

\* C14: get_edits raises ValueError exactly at the opening fence of a block that
\* has no header and no mention that applies while the files in the chat are not
\* exactly one; it returns no candidate then, whatever blocks came before, and
\* apply_updates reports the failure and gates, writes and commits nothing.
C14_ExtractionFailsAsAWhole ==
    /\ \A k \in 1..Len(extracted.edits) :
          ~ /\ header_before(k) = <<>>
            /\ mentions_before(k) = {}
            /\ Cardinality(chat_files) # 1
    /\ extracted.raised # "" =>
          /\ extracted.raised = "ValueError"
          /\ startswith_fence(reply_content[extracted.raised_at])
          /\ header_of(line_before(reply_content, extracted.raised_at)) = <<>>
          /\ \A j \in after_previous_block(Len(extracted.edits) + 1)
                       ..(extracted.raised_at - 1) :
                mentions_of(reply_content[j]) = {}
          /\ Cardinality(chat_files) # 1
          /\ extracted.returned = <<>>
          /\ pc # "linting"
          /\ pc = "reflecting" =>
                /\ Ops(log) \cap EditEvents = {}
                /\ Has(log, "tool_error: did not conform")
                /\ edited = {}
                /\ reflected_message = no_filename
                /\ abs_fnames = {f[1] : f \in chat_files}

\* apply_updates has returned after get_edits failed at a block that follows a
\* well-formed block.
C14_FailedAfterAWellFormedBlock ==
    /\ extracted.raised = "ValueError"
    /\ \E e \in Candidates : e.source = "block"
    /\ pc = "reflecting"

\* The place of a confidence in the order explicit-header ("block"),
\* inferred-from-mention ("saw"), sole-file-default ("chat").
rank(source) ==
    CASE source = "block" -> 1
      [] source = "saw" -> 2
      [] source = "chat" -> 3

\* Candidate r is at least as good as candidate c: of higher confidence, or of the
\* same confidence and not later in the text.
preferred(r, c) ==
    \/ rank(r.source) < rank(c.source)
    \/ rank(r.source) = rank(c.source) /\ r.at <= c.at

\* C15: get_edits returns candidates it found, one for each path that has a
\* candidate and no two for the same path: the one of the highest confidence in
\* the order explicit-header, inferred-from-mention, sole-file-default, wherever
\* it is in the text, and the earliest of those of that confidence.
C15_OneCandidatePerPath ==
    extracted.raised = "" =>
       /\ Returned \subseteq Candidates
       /\ Len(extracted.returned) = Cardinality({e.path : e \in Candidates})
       /\ \A e \in Candidates :
             \E r \in Returned :
                /\ r.path = e.path
                /\ \A c \in Candidates : c.path = r.path => preferred(r, c)

\* Two blocks for one path, the later of higher confidence: the later block was
\* kept and the earlier one dropped.
C15_LaterButMoreConfident ==
    \E c1, c2 \in Candidates :
       /\ c1.path = c2.path
       /\ c1.at < c2.at
       /\ rank(c2.source) < rank(c1.source)
       /\ c2 \in Returned
       /\ c1 \notin Returned

\* The events of the log with operation op, in the order of the log.
EventsOf(l, op) == SelectSeq(l, LAMBDA ev : ev.op = op)

\* The paths of a list of candidates, in the order of the list, as the sets of
\* paths of events.
PathsInOrder(edits) == [k \in 1..Len(edits) |-> {str_of(edits[k].path)}]

EventPaths(events) == [k \in 1..Len(events) |-> events[k].paths]

\* apply_updates has returned after get_edits returned.
Applied == extracted.done /\ extracted.raised = "" /\ pc \in {"linting", "reflecting"}

\* C16 as stated: the candidates are returned in the order in which their blocks
\* appear in the text, whatever their confidence.
C16_ReturnedInTextOrder ==
    \A i, j \in 1..Len(extracted.returned) :
        i < j => extracted.returned[i].at < extracted.returned[j].at

\* C16: the candidates are returned by confidence, explicit-header ones first, then
\* inferred-from-mention ones, then sole-file-default ones, and in the order of
\* their blocks in the text among those of one confidence; they are gated in the
\* order returned, and the approved ones are written in that order.
C16_ReturnedByConfidenceThenTextOrder ==
    /\ \A i, j \in 1..Len(extracted.returned) :
          i < j =>
             /\ extracted.returned[i] # extracted.returned[j]
             /\ preferred(extracted.returned[i], extracted.returned[j])
    /\ Applied =>
          /\ EventPaths(EventsOf(log, "allowed_to_edit")) = PathsInOrder(extracted.returned)
          /\ EventPaths(EventsOf(log, "write")) =
                EventPaths(SelectSeq(EventsOf(log, "allowed_to_edit"), LAMBDA ev : ev.ok))

\* A sole-file-default block followed by an explicit-header block for another
\* path: both were approved, and the later block was gated and written first.
C16_LaterBlockProcessedFirst ==
    /\ Applied
    /\ Len(extracted.returned) = 2
    /\ extracted.returned[1].at > extracted.returned[2].at
    /\ Len(EventsOf(log, "write")) = 2
    /\ EventsOf(log, "write")[1].paths = {str_of(extracted.returned[1].path)}

----------------------------------------------------------------------------
\* Properties of the gate (GateSpec).

\* The paths of the batch.
BatchPaths == {extracted.returned[k].path : k \in 1..Len(extracted.returned)}

\* The events of the decisions of the gate, and of what the gate does to add a
\* file.
GateEvents ==
    {"allowed_to_edit", "confirm: Allow creation", "confirm: Allow edits",
     "tool_error: Skipping edits", "touch", "git_add"}

\* C17: in the log of a batch the decisions of the gate come first, then the
\* pre-edit commit, then the writes; when a write was made every path of the batch
\* had been approved or refused; a written path that had uncommitted changes
\* before the batch is in the pre-edit commit when there is a repository and
\* dirty commits are enabled; the pre-edit commit holds only approved paths that
\* had uncommitted changes when the gate decided them (before the batch, or
\* because the gate added them to the repository), so no refused and no clean
\* path.
C17_GateThenCommitThenWrites ==
    [][pc = "gating" =>
         /\ Precede(log', GateEvents, {"commit: dirty", "write"})
         /\ Precede(log', {"commit: dirty"}, {"write"})
         /\ Count(log', "commit: dirty") <= 1
         /\ Has(log', "write") => BatchPaths \subseteq Approved(log') \cup Refused(log')
         /\ \A path \in Written(log') :
               path \in dirty /\ cfg.use_git /\ cfg.dirty_commits =>
                  path \in PathsOf(log', "commit: dirty")
         /\ PathsOf(log', "commit: dirty") \cap Refused(log') = {}
         /\ PathsOf(log', "commit: dirty") \subseteq
               Approved(log') \cap (dirty \cup PathsOf(log', "git_add"))
    ]_vars

\* A batch of a path with uncommitted changes and a clean path, both approved: the
\* first alone was committed, and both were written.
C17_DirtyCommittedThenWritten ==
    /\ pc = "updated"
    /\ Approved(log) = {"a", "b"}
    /\ PathsOf(log, "commit: dirty") = {"a"}
    /\ Written(log) = {"a", "b"}

\* The paths the user was asked about (to create the file, or to edit a file that
\* is not in the chat) and the answer was ok.
Answered(l, ok) ==
    UNION {l[i].paths : i \in {j \in 1..Len(l) :
              /\ l[j].op \in {"confirm: Allow creation", "confirm: Allow edits"}
              /\ l[j].ok = ok}}

\* The paths of the events of l on the file system and on git.
Touched(l) ==
    UNION {l[i].paths : i \in {j \in 1..Len(l) :
              l[j].op \in {"touch", "git_add", "write", "commit: dirty"}}}

\* C18: for a path of the batch that is not in the chat, whether its file exists
\* or not: it is put in the chat, created, added to the repository or written
\* only if the user was asked and said yes, and the question comes before all of
\* that; if the gate approved it, it is in the chat afterwards; if the gate
\* refused it, it is not in the chat afterwards, and its file, its place in the
\* repository and its uncommitted changes are as before, no call on the file
\* system or on git having named it.
C18_OutsideTheChatOnlyWithConsent ==
    [][pc = "gating" =>
         \A path \in BatchPaths \ abs_fnames :
            /\ path \in abs_fnames' \cup Touched(log') => path \in Answered(log', TRUE)
            /\ \A i, j \in 1..Len(log') :
                  /\ log'[i].op \in {"confirm: Allow creation", "confirm: Allow edits"}
                  /\ log'[j].op \in {"touch", "git_add", "write", "commit: dirty",
                                     "allowed_to_edit"}
                  /\ path \in log'[i].paths \cap log'[j].paths
                  => i < j
            /\ path \in Approved(log') => path \in abs_fnames'
            /\ path \in Refused(log') =>
                  /\ path \in Answered(log', FALSE)
                  /\ path \notin abs_fnames'
                  /\ path \in exists' <=> path \in exists
                  /\ path \in tracked' <=> path \in tracked
                  /\ path \in dirty' <=> path \in dirty
                  /\ path \notin Touched(log')
    ]_vars

\* Two paths outside the chat: the user allowed the edits to the existing file a,
\* which is in the chat and written, and refused to create b, which does not
\* exist.
C18_OneAllowedOneRefused ==
    /\ pc = "updated"
    /\ \E i \in 1..Len(log) :
          log[i] = Ev("confirm: Allow edits", {"a"}, TRUE)
    /\ "a" \in abs_fnames \cap Written(log)
    /\ \E i \in 1..Len(log) :
          log[i] = Ev("confirm: Allow creation", {"b"}, FALSE)
    /\ "b" \notin abs_fnames \cup exists

\* How many events of l with an operation of ops name path.
Times(l, ops, path) ==
    Cardinality({i \in 1..Len(l) : l[i].op \in ops /\ path \in l[i].paths})

\* C19: in the log of a batch no path is decided by the gate more than once and
\* the user is asked about no path more than once; when update_files has
\* returned, every path of the batch was decided once, approved or refused, the
\* set returned holds the approved paths, and (unless the I/O object is in dry-run
\* mode) the writes are the edits of the approved paths, every one of them, in the
\* order of the batch.
C19_OneDecisionPerPath ==
    /\ \A path \in Paths :
          /\ Times(log, {"allowed_to_edit"}, path) <= 1
          /\ Times(log, {"confirm: Allow creation", "confirm: Allow edits"}, path) <= 1
    /\ pc = "updated" =>
          /\ \A path \in BatchPaths : Times(log, {"allowed_to_edit"}, path) = 1
          /\ Approved(log) \cap Refused(log) = {}
          /\ edited = Approved(log)
          /\ ~cfg.io_dry_run =>
                EventPaths(EventsOf(log, "write")) =
                   [k \in 1..Len(SelectSeq(extracted.returned,
                                           LAMBDA e : e.path \in Approved(log))) |->
                       {SelectSeq(extracted.returned,
                                  LAMBDA e : e.path \in Approved(log))[k].path}]

\* A batch with two edits of b, which is not in the chat, and between them an edit
\* of a: the user was asked once about b and said yes, and the three edits were
\* written.
C19_AskedOnceWrittenTwice ==
    /\ pc = "updated"
    /\ Len(extracted.returned) = 3
    /\ extracted.returned[1].path = "b"
    /\ extracted.returned[2].path = "a"
    /\ extracted.returned[3].path = "b"
    /\ "b" \in Answered(log, TRUE)
    /\ Count(log, "write") = 3

----------------------------------------------------------------------------
\* Properties of the writes and of the commit record (EditSpec).

\* C21: when the edits that were applied last are applied again, the files
\* untouched in between, the text of every file stays what it was after the first
\* application, and, unless repo.commit returned a commit, last_aider_commit_hash
\* and aider_commit_hashes stay what they were.
C21_SecondApplicationChangesNothing ==
    [][pc = "applied" /\ pc' = "applied" =>
         /\ file_content' = file_content
         /\ ~(\E i \in 1..Len(log') : log'[i].op = "commit: auto" /\ log'[i].ok) =>
               /\ last_aider_commit_hash' = last_aider_commit_hash
               /\ aider_commit_hashes' = aider_commit_hashes
    ]_vars

\* The edits were applied twice: the first application changed a file and was
\* committed, the second found nothing to commit.
C21_AppliedTwiceCommittedOnce ==
    /\ pc = "applied"
    /\ send_cycles = 2
    /\ file_content["a"] = "y\nx\n"
    /\ last_aider_commit_hash # NoHash
    /\ log = <<Ev("commit: auto", {"a"}, FALSE)>>

----------------------------------------------------------------------------
\* Properties of the send loop (SendSpec).

\* The sends of the log, and those whose reply stopped for its length.
Sends == EventsOf(log, "send")
LengthStops == SelectSeq(Sends, LAMBDA ev : ~ev.ok)

\* The replies of the first n sends one after the other, each of them whole or
\* without the white space at its end.
RECURSIVE Accumulated(_, _, _)
Accumulated(sends, n, whole) ==
    IF n = 0 THEN <<>>
    ELSE Accumulated(sends, n - 1, whole)
         \o (IF whole THEN sends[n].reply ELSE rstrip(sends[n].reply, Whitespace))

\* After each length-limited stop of a model that can be primed there is one more
\* send, and none after a stop of a model that cannot: the cycle is marked
\* exhausted and does not reach apply_updates.
OneSendPerStop ==
    /\ Len(Sends) = Len(LengthStops) + (IF pc = "applying" THEN 1 ELSE 0)
    /\ \A k \in 1..Len(Sends) : ~Sends[k].ok /\ k < Len(Sends) => cfg.can_prefill
    /\ ~cfg.can_prefill /\ LengthStops # <<>> =>
          /\ Len(Sends) = 1
          /\ pc = "reflecting"
          /\ Has(log, "tool_error: token limit")
    /\ cfg.can_prefill => pc \in {"sending", "applying"}

\* The list of messages of send k: the first list, and after it, from the second
\* send on, one assistant message with the replies so far.
PrimedMessages(k, whole) ==
    IF k = 1 THEN Sends[1].messages
    ELSE Append(Sends[1].messages, Msg("assistant", Accumulated(Sends, k - 1, whole)))

\* C22 as stated: one more send per length-limited stop when the model can be
\* primed, its list of messages ending with one assistant message that holds all
\* the text of the replies so far; no more send and no edit when it cannot.
C22_PrimedWithAllTheText ==
    /\ OneSendPerStop
    /\ \A k \in 1..Len(Sends) :
          Sends[k].messages = PrimedMessages(k, TRUE)

\* C22: one more send per length-limited stop when the model can be primed, its
\* list of messages being the first list followed by one assistant message that
\* holds the text of the replies so far, each without the white space at its
\* end; the text the cycle goes on with is that text followed by the whole last
\* reply; no more send and no edit when the model cannot be primed.
C22_PrimedWithTheStrippedText ==
    /\ OneSendPerStop
    /\ \A k \in 1..Len(Sends) :
          Sends[k].messages = PrimedMessages(k, FALSE)
    /\ pc # "sending" =>
          partial_response_content =
             Accumulated(Sends, Len(Sends) - 1, FALSE)
             \o Sends[Len(Sends)].reply

\* Two length-limited stops, the first reply ending in white space, and a third
\* send that completed the reply.
C22_PrimedTwice ==
    /\ pc = "applying"
    /\ Len(Sends) = 3
    /\ Sends[1].reply = <<"r", " ">>
    /\ Sends[3].messages[Len(Sends[3].messages)].role = "assistant"
    /\ Sends[3].messages[Len(Sends[3].messages) - 1].role # "assistant"

----------------------------------------------------------------------------
\* Properties of the history and its summarization task (SummarySpec).

\* C23: at most one summarization task is in flight at any time, the one
\* Coder.summarizer_thread names, and a task is started only when none is in
\* flight.
C23_OneTaskInFlight ==
    /\ Cardinality(InFlight) <= 1
    /\ InFlight \subseteq {summarizer_thread}
    /\ \A t \in 2..Len(workers) : workers[t - 1].state = "finished"

\* A second task is in flight, after the first was joined.
C23_SecondTaskInFlight ==
    /\ Len(workers) = 2
    /\ InFlight = {2}
    /\ pc = "moving back"

\* The calls of format_messages so far.
Assembled == EventsOf(log, "format_messages")

\* C24 as stated: format_messages reads the history only after the task it
\* joined has finished, and what it reads does not depend on when the task ran:
\* it is what the task gives for the history as it was when the task started,
\* and for the history as it was at the join.
C24_AssembledWhateverTheInterleaving ==
    \A k \in 1..Len(Assembled) :
        \E joined \in {Assembled[k].joined} :
            joined # NoThread =>
               /\ workers[joined].state = "finished"
               /\ ~workers[joined].raised =>
                     /\ Assembled[k].history = summarize(workers[joined].at_start)
                     /\ Assembled[k].history = summarize(Assembled[k].live)

\* C25 as stated: the task summarizes the history as it was when the task was
\* started, and while the task is in flight the history stays as it was then.
C25_PrivateSnapshot ==
    \A t \in 1..Len(workers) :
        /\ workers[t].state # "started" => workers[t].read = workers[t].at_start
        /\ t \in InFlight => done_messages = workers[t].at_start

----------------------------------------------------------------------------
\* Properties of choose_fence (FenceSpec).

\* The texts of the files of the chat that can be read.
InChatContents == {file_content[f] : f \in abs_fnames \cap exists}

\* Neither marker of candidate k occurs in a file of the chat.
Unused(k) ==
    \A text \in InChatContents, side \in 1..2 : ~occurs(fences[k][side], text)

\* C26: choose_fence ends with the first candidate of Coder.fences neither of
\* whose markers occurs in the text of a file of the chat, and without the
\* diagnostic; when each candidate has a marker in the texts it ends with the
\* first candidate and with the diagnostic made once.
C26_FirstUnusedFence ==
    pc = "chosen" =>
       IF \E k \in 1..Len(fences) : Unused(k)
       THEN /\ \E k \in 1..Len(fences) :
                  /\ Unused(k)
                  /\ \A j \in 1..(k - 1) : ~Unused(j)
                  /\ fence = fences[k]
            /\ Count(log, "tool_error: Unable to find a fencing strategy") = 0
       ELSE /\ fence = fences[1]
            /\ Count(log, "tool_error: Unable to find a fencing strategy") = 1

\* The first three candidates have a marker in the two files, and the fourth is
\* chosen.
C26_FourthFenceChosen ==
    /\ pc = "chosen"
    /\ abs_fnames = Paths
    /\ file_content["a"] = <<fences[1][1]>>
    /\ file_content["b"] = Marks(3, 2)
    /\ fence = fences[4]

----------------------------------------------------------------------------
\* Properties of format_messages (FormatSpec).

\* Whether the prompts' examples are messages of their own.
ExamplesApart == cfg.examples /\ ~cfg.examples_as_sys_msg

\* Message k is a user message whose content begins with the piece first.
UserMessage(k, first) ==
    /\ k <= Len(messages)
    /\ messages[k].role = "user"
    /\ Head(messages[k].content) = first

\* The reminder is in the messages as a message of its own, at their end.
ReminderAppended ==
    /\ Len(messages) > 1
    /\ messages[Len(messages)] = Msg("system", system_reminder)

\* The reminder is in the messages at the end of the last message, which is the
\* last message of the turn.
ReminderFolded ==
    /\ messages[Len(messages)].role = "user"
    /\ messages[Len(messages)].content =
          cur_messages[Len(cur_messages)].content \o <<"\n", "\n">> \o system_reminder

\* The messages are, in this order: the system message; the example exchanges,
\* unless they are part of the system message; the history; the exchange about
\* the repository map, if there is a map; the exchange about the files of the
\* chat, or the one that says there is none; the exchange of the images, if the
\* order has one and an image is in the chat of a model that accepts images; the
\* messages of the turn, the last of them with the reminder after its content or
\* as it is; and then the reminder or nothing.
InOrder(with_images) ==
    LET e == IF ExamplesApart THEN 4 ELSE 0
        h == Len(done_messages)
        r == IF cfg.repo_map THEN 2 ELSE 0
        i == IF with_images /\ cfg.accepts_images /\ cfg.image /\ "a" \in abs_fnames
             THEN 2 ELSE 0
        c == Len(cur_messages)
        n == 1 + e + h + r + 2 + i + c
    IN  /\ Len(messages) \in {n, n + 1}
        /\ messages[1].role = "system" /\ Head(messages[1].content) = "main_system"
        /\ ExamplesApart =>
              /\ UserMessage(2, "example request")
              /\ UserMessage(4, "I switched to a new code base.")
        /\ SubSeq(messages, 2 + e, 1 + e + h) = done_messages
        /\ cfg.repo_map => UserMessage(2 + e + h, "repo_content")
        /\ UserMessage(2 + e + h + r,
                       IF abs_fnames # {} THEN "files_content_prefix"
                       ELSE IF cfg.repo_map THEN "files_no_full_files_with_repo_map"
                       ELSE "files_no_full_files")
        /\ i = 2 => UserMessage(4 + e + h + r, "image_url")
        /\ SubSeq(messages, n - c + 1, n - 1) = SubSeq(cur_messages, 1, c - 1)
        /\ \/ messages[n] = cur_messages[c]
           \/ Len(messages) = n /\ ReminderFolded
        /\ Len(messages) = n + 1 => ReminderAppended

\* C27 as stated: the messages of a send are the system message, the example
\* exchanges unless folded, the whole history, the exchange of the repository
\* map if any, the exchange of the files or its placeholder, all the messages of
\* the turn and the reminder, in this order and with nothing else between them.
C27_FixedOrder == pc = "formatted" => InOrder(FALSE)

\* C27: the same order with, between the exchange of the files and the messages
\* of the turn, the exchange of the images when an image is in the chat of a
\* model that accepts images; the history and the messages of the turn are there
\* whole and in their order.
C27_FixedOrderWithImages == pc = "formatted" => InOrder(TRUE)

\* Every part is there: examples, history, repository map, a file and an image
\* of the chat, a turn of three messages and the reminder at the end.
C27_EveryPart ==
    /\ pc = "formatted"
    /\ ExamplesApart /\ cfg.repo_map /\ cfg.accepts_images /\ cfg.image
    /\ abs_fnames = Paths
    /\ done_messages # <<>>
    /\ Len(cur_messages) = 3
    /\ ReminderAppended
    /\ Len(messages) = 17

\* The tokens of all the messages and of the reminder.
AllTokens ==
    token_count(IF ReminderAppended THEN messages
                ELSE Append(messages, Msg("system", system_reminder)))

\* The limit is known, and the tokens are counted and reach it.
AtOrAboveLimit ==
    cfg.limited /\ cfg.counts_tokens /\ AllTokens >= cfg.max_input_tokens

\* The messages end with the messages of the turn as they are, and have the
\* history as it is.
NothingShortened ==
    /\ SubSeq(messages, Len(messages) - Len(cur_messages) + 1, Len(messages))
          = cur_messages
    /\ \E k \in 2..Len(messages) :
          SubSeq(messages, k, k + Len(done_messages) - 1) = done_messages

\* C28 as stated: the reminder is added, at the end or in the last user message,
\* only if the tokens of all the messages with the reminder are below the limit;
\* at or above the limit the text of the reminder is in no message, and the
\* messages are whole.
C28_ReminderAbsentAtTheLimit ==
    pc = "formatted" =>
       /\ ReminderAppended \/ ReminderFolded => ~AtOrAboveLimit
       /\ AtOrAboveLimit =>
             /\ \A k \in 1..Len(messages) : ~occurs("system_reminder", messages[k].content)
             /\ NothingShortened

\* C28: the reminder is added, at the end or in the last user message, only if
\* the tokens of all the messages with the reminder are below the limit, or the
\* model has no known limit or does not count tokens; at or above the limit the
\* text of the reminder is in no message but the system message, which always
\* ends with it, and the messages are whole.
C28_ReminderOnlyInTheSystemMessage ==
    pc = "formatted" =>
       /\ ReminderAppended \/ ReminderFolded => ~AtOrAboveLimit
       /\ messages[1].content[Len(messages[1].content)] = "system_reminder"
       /\ AtOrAboveLimit =>
             /\ \A k \in 2..Len(messages) : ~occurs("system_reminder", messages[k].content)
             /\ NothingShortened

\* The tokens are at the limit, and the reminder is in the system message alone.
C28_AtTheLimit ==
    /\ pc = "formatted"
    /\ cfg.limited /\ cfg.counts_tokens /\ AllTokens = cfg.max_input_tokens
    /\ ~ReminderAppended /\ ~ReminderFolded
    /\ occurs("system_reminder", messages[1].content)

----------------------------------------------------------------------------
\* Properties of the test step and of the scan for mentioned files (Spec).

\* C29: the test step runs the tests only if apply_updates reported edits and
\* the tests are switched on; it goes to the reflection if and only if the tests
\* failed and the user accepted the offer to fix them; the payload is then the
\* test errors and the cycle makes no auto-commit; in every other case the cycle
\* goes on to the commit step and reflected_message is as it was.
C29_TestReflection ==
    /\ [][pc = "testing" /\ pc' \in {"reflecting", "committing"} =>
             LET did == Appended(log, log')
                 failed == \E i \in 1..Len(did) : did[i].op = "test" /\ ~did[i].ok
                 accepted == \E i \in 1..Len(did) :
                                did[i].op = "confirm: Attempt to fix test errors" /\ did[i].ok
             IN /\ Has(did, "test") => edited # {} /\ cfg.auto_test
                /\ Has(did, "confirm: Attempt to fix test errors") => failed
                /\ pc' = "reflecting" <=> (failed /\ accepted)
                /\ pc' = "reflecting" => reflected_message' = <<"test_errors">>
                /\ pc' = "committing" => reflected_message' = reflected_message]_vars
    /\ [](pc = "reflecting" /\ TestFixAccepted(log) =>
            /\ reflected_message = <<"test_errors">>
            /\ Ops(log) \cap {"commit: auto", "get_file_mentions"} = {})

\* Test errors after an edit that was written are about to be reflected.
C29_TestErrorsReflected ==
    /\ pc = "reflecting"
    /\ reflected_message = <<"test_errors">>
    /\ Written(log) # {}
    /\ Has(log, "test")

\* The user was asked whether to add files to the chat, and what they answered.
AskedToAdd(l) == Has(l, "confirm: Add these files")
AddingApproved(l) ==
    \E i \in 1..Len(l) : l[i].op = "confirm: Add these files" /\ l[i].ok

\* C30: the scan comes after the commit step and with no reflection pending;
\* the user is asked if and only if the reply mentions files that can be added
\* and are not in the chat; reflected_message becomes the notice of the added
\* files if and only if the user was asked and approved, and then the files of
\* the chat are those of before and the mentioned ones; otherwise the files of
\* the chat and reflected_message are as they were, and after a refusal run
\* ends the turn without another send.
C30_MentionedFilesAdded ==
    /\ [](pc = "scanning" => ~Truthy(reflected_message))
    /\ [][pc = "scanning" /\ pc' = "reflecting" =>
             LET did == Appended(log, log')
                 mentioned == PathsOf(did, "confirm: Add these files")
             IN /\ Has(did, "get_file_mentions")
                /\ AskedToAdd(did) =>
                      /\ mentioned # {}
                      /\ mentioned \cap abs_fnames = {}
                      /\ mentioned \subseteq get_addable_relative_files(abs_fnames)
                /\ reflected_message' = <<"added_files">> <=> AddingApproved(did)
                /\ AddingApproved(did) => abs_fnames' = abs_fnames \cup mentioned
                /\ ~AddingApproved(did) =>
                      /\ abs_fnames' = abs_fnames
                      /\ reflected_message' = reflected_message]_vars
    /\ [][/\ pc = "reflecting"
          /\ log # <<>>
          /\ log[Len(log)].op = "confirm: Add these files"
          /\ ~log[Len(log)].ok
          => pc' = end_of_turn /\ abs_fnames' = abs_fnames /\ log' = log]_vars

\* The user approved adding the file the reply mentions: it is in the chat and
\* the notice is about to be reflected.
C30_MentionedFileInTheChat ==
    /\ pc = "reflecting"
    /\ reflected_message = <<"added_files">>
    /\ log # <<>>
    /\ log[Len(log)] = Ev("confirm: Add these files", {"b"}, TRUE)
    /\ abs_fnames = Paths

----------------------------------------------------------------------------
\* Properties of the reading of the files of the chat (FormatSpec).

\* The paths whose text is in the message about the files of the chat.
FilesSent ==
    {f \in Paths :
        \E k \in 1..Len(messages) :
            /\ messages[k].role = "user"
            /\ Head(messages[k].content) = "files_content_prefix"
            /\ occurs(f, messages[k].content)}

----------------------------------------------------------------------------
\* The whole-file coder on a reply that streams in: WholeFileCoder's
\* render_incremental_response on each part of the reply as it arrives, then
\* get_edits and update_files on the whole reply, with the texts of the files.
\* The reply arrives a line at a time.

\* The lines of the replies: the fences, an empty line, the names of the two
\* files, which are lines of content inside a block, and the name of a file
\* quoted.
WholeLines ==
    (IF fence = fences[1] THEN {fence_line} ELSE {<<fence[1]>>, <<fence[2]>>})
    \cup {<<>>, <<"a">>, <<"b">>, <<backtick, "a", backtick>>}

\* The paths a reply can name: the two files, and a fence of wrap_fence, which is
\* taken for a file name when it is the line before a fence that opens a block.
WholePaths == Paths \cup {fences[2][1], fences[2][2]}

\* The text of a file that exists before the reply.
OldText == "x\n"

\* get_multi_response_content() as get_edits calls it (final=False): the text
\* without the whitespace at its end, then splitlines.
RECURSIVE streamed_lines(_)
streamed_lines(lines) ==
    IF lines = <<>> THEN <<>>
    ELSE IF strip(lines[Len(lines)], Whitespace) = <<>>
    THEN streamed_lines(SubSeq(lines, 1, Len(lines) - 1))
    ELSE Append(SubSeq(lines, 1, Len(lines) - 1), rstrip(lines[Len(lines)], Whitespace))

\* do_live_diff: the lines of the diff of diffs.diff_partial_update for a file
\* that exists (one line stands for them), the block between backticks otherwise.
do_live_diff(fname, new_lines, final, on_disk) ==
    IF str_of(fname) \in on_disk
    THEN <<<<"diff_partial_update", str_of(fname), IF final THEN "final" ELSE "not final">>>>
    ELSE <<fence_line>> \o new_lines \o <<fence_line>>

\* The locals of get_edits(mode="diff") before its loop.
live_start ==
    [fname |-> <<>>, fname_source |-> "", new_lines |-> <<>>, at |-> 0,
     saw_fname |-> <<>>, output |-> <<>>, raised |-> ""]

\* One round of the loop over the lines in diff mode.
live_line(lines, i, in_chat, on_disk, s) ==
    IF startswith_fence(lines[i])
    THEN IF s.fname # <<>>
         THEN [s EXCEPT !.output = @ \o do_live_diff(s.fname, s.new_lines, TRUE, on_disk),
                        !.saw_fname = <<>>,
                        !.fname = <<>>, !.fname_source = "", !.new_lines = <<>>]
         ELSE open_block(lines, i, in_chat, s)
    ELSE IF s.fname # <<>>
    THEN [s EXCEPT !.new_lines = Append(@, lines[i])]
    ELSE [s EXCEPT !.saw_fname =
                       saw_after(split(strip(lines[i], Whitespace), <<>>, <<>>), in_chat, @),
                   !.output = Append(@, lines[i])]

RECURSIVE live_lines(_, _, _, _, _)
live_lines(lines, i, in_chat, on_disk, s) ==
    IF i > Len(lines) \/ s.raised # "" THEN s
    ELSE Then(live_line(lines, i, in_chat, on_disk, s), LAMBDA next :
              live_lines(lines, i + 1, in_chat, on_disk, next))

\* get_edits(mode="diff"): what it returns (the lines of output, which it joins
\* with line ends) or the exception it raises.
get_edits_diff(lines, in_chat, on_disk) ==
    Then(live_lines(lines, 1, in_chat, on_disk, live_start), LAMBDA s :
         [raised |-> s.raised,
          output |-> IF s.raised # "" THEN <<>>
                     ELSE IF s.fname # <<>>
                     THEN s.output \o do_live_diff(s.fname, s.new_lines, FALSE, on_disk)
                     ELSE s.output])

\* render_incremental_response without its "except ValueError".
render_incremental_response_raising(content, in_chat, on_disk) ==
    get_edits_diff(content, in_chat, on_disk)

\* WholeFileCoder.render_incremental_response
render_incremental_response(content, in_chat, on_disk) ==
    Then(get_edits_diff(content, in_chat, on_disk), LAMBDA r :
         IF r.raised = "ValueError" THEN [raised |-> "", output |-> content] ELSE r)

\* live_incremental_response: what mdstream.update is given.
Shown(text, final) == [op |-> "mdstream.update", text |-> text, ok |-> final]

WholeInit ==
    /\ cfg \in {DefaultConfig, [DefaultConfig EXCEPT !.io_dry_run = TRUE]}
    /\ pc = "streaming"
    /\ num_reflections = 0
    /\ reflected_message = NoneMsg
    /\ last_keyboard_interrupt = NoTime
    /\ now = NoTime
    /\ abs_fnames \in SUBSET Paths
    /\ exists = abs_fnames \cup {"a"}
    /\ tracked = exists
    /\ dirty = {}
    /\ multi_response_content = 0
    /\ edited = {}
    /\ cur_messages = <<>>
    /\ send_cycles = 0
    /\ log = <<>>
    /\ fence \in {fences[1], fences[2]}
    /\ reply_content \in SeqsUpTo(WholeLines, MaxLines)
    /\ extracted = NotExtracted
    /\ file_content = [path \in WholePaths |-> IF path \in exists THEN OldText ELSE ""]
    /\ last_aider_commit_hash = NoHash
    /\ aider_commit_hashes = {}
    /\ messages = <<>>
    /\ partial_response_content = <<>>
    /\ NoHistory

\* One round of show_send_output_stream: the next part of the reply is added to
\* partial_response_content and live_incremental_response(False) shows the reply
\* so far.
Stream ==
    /\ pc = "streaming"
    /\ Len(partial_response_content) < Len(reply_content)
    /\ partial_response_content' =
           Append(partial_response_content,
                  reply_content[Len(partial_response_content) + 1])
    /\ \E r \in {render_incremental_response(streamed_lines(partial_response_content'),
                                             chat_files_of(abs_fnames), exists)} :
          IF r.raised = ""
          THEN log' = Append(log, Shown(r.output, FALSE))
          ELSE log' = Append(log, Ev("raise: " \o r.raised, {}, FALSE))
    /\ pc' = pc
    /\ UNCHANGED <<cfg, fence, reply_content, extracted, num_reflections, reflected_message,
                   last_keyboard_interrupt, now, world, multi_response_content, edited,
                   cur_messages, send_cycles, file_content, last_aider_commit_hash,
                   aider_commit_hashes, messages, summary>>

\* The reply is complete: the "finally" of the send shows it a last time
\* (live_incremental_response(True)), and apply_updates is next.
StreamEnds ==
    /\ pc = "streaming"
    /\ Len(partial_response_content) = Len(reply_content)
    /\ \E r \in {render_incremental_response(streamed_lines(partial_response_content),
                                             chat_files_of(abs_fnames), exists)} :
          IF r.raised = ""
          THEN log' = Append(log, Shown(r.output, TRUE))
          ELSE log' = Append(log, Ev("raise: " \o r.raised, {}, FALSE))
    /\ pc' = "extracting"
    /\ UNCHANGED <<cfg, fence, reply_content, extracted, num_reflections, reflected_message,
                   last_keyboard_interrupt, now, world, multi_response_content, edited,
                   cur_messages, send_cycles, file_content, last_aider_commit_hash,
                   aider_commit_hashes, messages, partial_response_content, summary>>

\* A line with its line end, as a string.
text_of(line) == str_of(line) \o "\n"

\* self.get_edits() of update_files: "content = self.get_multi_response_content()"
\* is the reply without the whitespace at its end.
GetEditsOfReply ==
    /\ pc = "extracting"
    /\ pc' = "applying"
    /\ extracted' = get_edits_update(streamed_lines(partial_response_content),
                                     chat_files_of(abs_fnames))
    /\ UNCHANGED <<cfg, fence, reply_content, num_reflections, reflected_message,
                   last_keyboard_interrupt, now, world, multi_response_content, edited,
                   cur_messages, send_cycles, log, file_content, last_aider_commit_hash,
                   aider_commit_hashes, messages, partial_response_content, summary>>

\* The edits get_edits returned, with their paths and their lines as strings:
\* splitlines(keepends=True) keeps the end of every line, and the last line of
\* the content has none.
edits_with_lines(ex, content) ==
    [k \in 1..Len(ex.returned) |->
        [path |-> str_of(ex.returned[k].path), source |-> ex.returned[k].source,
         at |-> ex.returned[k].at,
         new_lines |-> [n \in 1..Len(ex.returned[k].new_lines) |->
                           IF ex.returned[k].at + n = Len(content)
                           THEN str_of(ex.returned[k].new_lines[n])
                           ELSE text_of(ex.returned[k].new_lines[n])]]]

\* Coder.apply_updates after get_edits: prepare_to_edit with the user's answers,
\* then apply_edits on the files and on their texts; the ValueError of get_edits
\* is reflected.
UpdateFiles ==
    /\ pc = "applying"
    /\ IF extracted.raised # ""
       THEN /\ reflected_message' = no_filename
            /\ pc' = "reflecting"
            /\ UNCHANGED <<world, log, edited, file_content>>
       ELSE \E answers \in [{str_of(extracted.returned[k].path) :
                                  k \in 1..Len(extracted.returned)} -> BOOLEAN] :
               \E p \in {prepare_to_edit([abs_fnames |-> abs_fnames, exists |-> exists,
                                          tracked |-> tracked, dirty |-> dirty,
                                          need_commit_before_edits |-> {}, log |-> log,
                                          raised |-> "", ret |-> FALSE],
                                         edits_with_lines(extracted,
                                                          streamed_lines(partial_response_content)),
                                         answers, NoFault)} :
                  \E st \in {apply_edits(p.st, p.res, NoFault)} :
                     /\ abs_fnames' = st.abs_fnames
                     /\ exists' = st.exists
                     /\ tracked' = st.tracked
                     /\ dirty' = st.dirty
                     /\ log' = st.log
                     /\ edited' = {p.res[k].path : k \in 1..Len(p.res)}
                     /\ file_content' = apply_edits_content(file_content, p.res)
                     /\ reflected_message' = reflected_message
                     /\ pc' = "updated"
    /\ UNCHANGED <<cfg, fence, reply_content, extracted, num_reflections,
                   last_keyboard_interrupt, now, multi_response_content,
                   cur_messages, send_cycles, last_aider_commit_hash,
                   aider_commit_hashes, messages, partial_response_content, summary>>

WholeNext == Stream \/ StreamEnds \/ GetEditsOfReply \/ UpdateFiles

WholeSpec == WholeInit /\ [][WholeNext]_vars

----------------------------------------------------------------------------
\* Properties of the whole-file coder on a reply (WholeSpec).

\* The fence lines of a text.
FenceLines(lines) == {i \in 1..Len(lines) : startswith_fence(lines[i])}

\* The fences that open a block: the first, the third, ... fence line.
OpeningFences(lines) ==
    {i \in FenceLines(lines) : Cardinality({j \in FenceLines(lines) : j <= i}) % 2 = 1}

\* The lines strictly between the fence at line i and the next fence, or the end
\* of the text if there is none.
Between(lines, i) ==
    LET after == {j \in FenceLines(lines) : j > i}
        close == IF after = {} THEN Len(lines) + 1
                 ELSE CHOOSE j \in after : \A n \in after : j <= n
    IN SubSeq(lines, i + 1, close - 1)

\* The lines of a text, each with its line end, one after the other.
RECURSIVE Concatenation(_)
Concatenation(lines) ==
    IF lines = <<>> THEN "" ELSE text_of(Head(lines)) \o Concatenation(Tail(lines))

\* The candidates of get_edits are the blocks of the text, with the lines
\* between their fences.
CandidatesOf(lines) ==
    /\ \A k \in 1..Len(extracted.edits) :
          extracted.edits[k].new_lines = Between(lines, extracted.edits[k].at)
    /\ extracted.raised = "" =>
          {extracted.edits[k].at : k \in 1..Len(extracted.edits)} = OpeningFences(lines)

\* The files of the edits that were applied have the text of their candidates.
WrittenFrom(lines) ==
    \A k \in 1..Len(extracted.returned) :
        str_of(extracted.returned[k].path) \in edited =>
            file_content[str_of(extracted.returned[k].path)] =
                Concatenation(Between(lines, extracted.returned[k].at))

\* C32 as stated: a candidate has the lines of the reply strictly between its
\* fences, to the end of the reply for a block left open, and after approval the
\* file has these lines, verbatim.
C32_VerbatimLinesOfTheReply ==
    /\ extracted.done => CandidatesOf(reply_content)
    /\ pc = "updated" => WrittenFrom(reply_content)

\* The text get_edits reads: the reply without the whitespace at its end.
ContentRead == streamed_lines(reply_content)

\* The text of a candidate as apply_edits joins it: the last line of the text
\* get_edits read has no line end.
JoinedText(e) ==
    IF e.new_lines # <<>> /\ e.at + Len(e.new_lines) = Len(ContentRead)
    THEN Concatenation(SubSeq(e.new_lines, 1, Len(e.new_lines) - 1))
             \o str_of(e.new_lines[Len(e.new_lines)])
    ELSE Concatenation(e.new_lines)

\* C32: a candidate has the lines strictly between its fences of the reply
\* without the whitespace at its end, to the end of that text for a block left
\* open; after approval the file has these lines joined, unless the I/O object
\* is in dry-run mode, where no file changes.
C32_LinesBetweenTheFences ==
    /\ [](extracted.done => CandidatesOf(ContentRead))
    /\ [][pc = "applying" /\ pc' = "updated" =>
             \A k \in 1..Len(extracted.returned) :
                LET e == extracted.returned[k]
                IN /\ e.new_lines = Between(ContentRead, e.at)
                   /\ file_content'[str_of(e.path)] =
                         IF str_of(e.path) \in edited' /\ ~cfg.io_dry_run
                         THEN JoinedText(e)
                         ELSE file_content[str_of(e.path)]]_vars

\* A block left open was written to the file b: its two lines, the last without
\* a line end.
C32_OpenBlockWritten ==
    /\ pc = "updated"
    /\ ~cfg.io_dry_run
    /\ reply_content = <<<<"b">>, fence_line, <<"a">>, <<"b">>>>
    /\ edited = {"b"}
    /\ file_content["b"] = "a\nb"

\* What the last call of mdstream.update was given.
LastShown(l) == l[Len(l)]

----------------------------------------------------------------------------
\* Properties of the history when the summary fails or races (SummarySpec).

\* C34: when the task that is joined has failed with ValueError, the join
\* still puts the result buffer in the place of the history, and the buffer is
\* empty: after the join the history is empty, whatever it held before.
C34_HistoryDiscardedOnFailure ==
    [][/\ summarizer_thread # NoThread
       /\ summarizer_thread' # summarizer_thread
       /\ workers[summarizer_thread].raised
       => /\ summarized_done_messages = <<>>
          /\ done_messages' = <<>>
          /\ summarized_done_messages' = <<>>]_vars

\* format_messages joined a task that had failed: the history held messages
\* before the join, and none was sent.
C34_HistoryLost ==
    /\ pc = "replied"
    /\ log # <<>>
    /\ log[Len(log)].op = "format_messages"
    /\ log[Len(log)].joined # NoThread
    /\ workers[log[Len(log)].joined].raised
    /\ log[Len(log)].live # <<>>
    /\ log[Len(log)].history = <<>>
    /\ done_messages = <<>>

\* C35 as stated: no message of the history is lost by the summary. When a
\* task that did not fail is joined, every message the history holds at the join
\* (the commit exchange appended after the task was started among them) is one
\* the task read, so that the summary that takes the place of the history
\* stands for it.
C35_NoMessageLost ==
    [][/\ summarizer_thread # NoThread
       /\ summarizer_thread' # summarizer_thread
       /\ ~workers[summarizer_thread].raised
       => \A k \in 1..Len(done_messages) :
             \E j \in 1..Len(workers[summarizer_thread].read) :
                workers[summarizer_thread].read[j] = done_messages[k]]_vars

----------------------------------------------------------------------------
\* Properties of the reflected message at the end of a cycle (Spec).

\* What one source makes of reflected_message: the parser's diagnostic or the
\* text of an exception of apply_updates, the lint errors, the test errors, the
\* notice of the files added.
OneSource ==
    {no_filename, <<"lint_errors">>, <<"test_errors">>, <<"added_files">>}
    \cup (ExcTexts \ {<<>>})

\* C36: the mention scan finds reflected_message empty (None or ""), so what it
\* sets is the notice alone; a cycle that ends with something to reflect has it
\* from one source, never the lint or test errors with the notice after them.
C36_OneSourceReflected ==
    /\ [](pc = "scanning" => reflected_message \in {NoneMsg, <<>>})
    /\ [](pc = "reflecting" /\ Truthy(reflected_message) => reflected_message \in OneSource)
    /\ [][pc = "scanning" /\ reflected_message' # reflected_message =>
             reflected_message' = <<"added_files">>]_vars

\* The linter found errors, the user declined to have them fixed, and the cycle
\* ends with the notice of the added file alone.
C36_NoticeAfterLintErrors ==
    /\ pc = "reflecting"
    /\ reflected_message = <<"added_files">>
    /\ Has(log, "tool_error: lint errors")
    /\ log[Len(log)] = Ev("confirm: Add these files", {"b"}, TRUE)

----------------------------------------------------------------------------
\* Properties of the dry-run mode of the coder (Spec).

\* The calls that change the files or version control.
Changing == {"write", "touch", "git_add", "commit: dirty", "commit: auto"}

\* C37 as stated: with dry_run set on the coder, no call of a turn changes the
\* file system or version control: nothing is written, no file is created,
\* nothing is added to git, and no commit is made before or after the edits.
C37_DryRunChangesNothing ==
    cfg.dry_run => \A i \in 1..Len(log) : log[i].op \notin Changing

----------------------------------------------------------------------------
\* Properties of the continuations of the send loop (FairSendSpec).

\* The assistant messages of the list given to send.
Synthetic == {k \in 1..Len(messages) : messages[k].role = "assistant"}

\* The step is a length-limited stop of a model that can be primed.
PrimedStop ==
    /\ pc = "sending"
    /\ cfg.can_prefill
    /\ Len(log') = Len(log) + 1
    /\ ~log'[Len(log')].ok

\* C38: a length-limited stop of a model that can be primed keeps the cycle in
\* the send loop and leaves num_reflections as it is, whatever num_reflections
\* is; the loop is left only by another outcome of the send, and it is left once
\* the model stops returning length-limited stops; the list of messages never
\* holds more than one assistant message, the last of the list.
C38_ContinuationsUncounted ==
    /\ [][PrimedStop => pc' = "sending" /\ num_reflections' = num_reflections]_vars
    /\ [][pc = "sending" /\ pc' # "sending" => ~PrimedStop]_vars
    /\ [](Synthetic \subseteq {Len(messages)})
    /\ [](Len(LengthStops) > 0 /\ cfg.can_prefill /\ pc = "sending" => Synthetic # {})
    /\ [](pc = "sending" => <>(pc # "sending"))

\* With num_reflections at max_reflections the reply stopped twice for its
\* length and was continued twice; the last send had one assistant message.
C38_ContinuedAtTheLimit ==
    /\ pc = "applying"
    /\ num_reflections = max_reflections
    /\ Len(LengthStops) = MaxStops
    /\ Len(Sends) = MaxStops + 1
    /\ Cardinality(Synthetic) = 1

----------------------------------------------------------------------------
\* Properties of a fence without a header (WholeSpec).

\* get_edits returned.
Extracted == extracted.done /\ extracted.raised = ""

\* The candidate of the block that the fence at line i opens.
CandidateAt(i) ==
    extracted.edits[CHOOSE k \in 1..Len(extracted.edits) : extracted.edits[k].at = i]

\* The candidates for the path of a candidate e that are tried before e when
\* the duplicates are dropped: those of the same source that come before it in
\* the text, and those of a source of more confidence.
Confidence(source) == CASE source = "block" -> 3 [] source = "saw" -> 2 [] OTHER -> 1

MoreConfident(e) ==
    {k \in 1..Len(extracted.edits) :
        /\ extracted.edits[k].path = e.path
        /\ Confidence(extracted.edits[k].source) > Confidence(e.source)}

TriedBefore(e) ==
    MoreConfident(e)
    \cup {k \in 1..Len(extracted.edits) :
             /\ extracted.edits[k].path = e.path
             /\ extracted.edits[k].source = e.source
             /\ extracted.edits[k].at < e.at}

\* The candidate of the sole file of the chat, with nothing in it, for the block
\* that opens at line i.
EmptyForSoleFile(i) ==
    [path |-> sole_file(extracted.chat_files), source |-> "chat",
     new_lines |-> <<>>, at |-> i]

\* C39 as stated: a fence that opens a block after a blank line or after a
\* fence line has no header, and its file is the one mentioned or the sole file
\* of the chat; when it is the last line and one file is in the chat, the
\* candidate is for that file, by default, and empty, and once applied the file
\* is empty unless a candidate of more confidence for the file exists.
C39_FenceAfterFenceHasNoHeader ==
    Extracted =>
       \A i \in OpeningFences(ContentRead) :
          i > 1 /\ (strip(ContentRead[i - 1], Whitespace) = <<>>
                    \/ startswith_fence(ContentRead[i - 1])) =>
             /\ CandidateAt(i).source \in {"saw", "chat"}
             /\ i = Len(ContentRead) /\ Cardinality(extracted.chat_files) = 1 =>
                   /\ CandidateAt(i) = EmptyForSoleFile(i)
                   /\ pc = "updated" /\ MoreConfident(CandidateAt(i)) = {} =>
                         file_content[str_of(CandidateAt(i).path)] = ""

\* C39: a fence that opens a block after a blank line, or after a fence line of
\* three backticks, has no header, and its file is the one mentioned or the sole
\* file of the chat; after a fence line of another form (wrap_fence) that line
\* is its header. When a fence without a header is the last line of the text
\* get_edits reads and one file is in the chat, the candidate is empty and for
\* that file, by default or as the file mentioned; once applied the file is
\* empty, unless another candidate for the file has more confidence or has the
\* same and comes first, or the I/O object is in dry-run mode.
C39_FenceWithoutHeader ==
    Extracted =>
       \A i \in OpeningFences(ContentRead) :
          /\ i > 1 /\ fence # fences[1] /\ startswith_fence(ContentRead[i - 1]) =>
                /\ CandidateAt(i).source = "block"
                /\ CandidateAt(i).path = ContentRead[i - 1]
          /\ i > 1 /\ (strip(ContentRead[i - 1], Whitespace) = <<>>
                       \/ (fence = fences[1] /\ ContentRead[i - 1] = fence_line)) =>
                /\ CandidateAt(i).source \in {"saw", "chat"}
                /\ i = Len(ContentRead) /\ Cardinality(extracted.chat_files) = 1 =>
                      /\ CandidateAt(i).path = sole_file(extracted.chat_files)
                      /\ CandidateAt(i).new_lines = <<>>
                      /\ CandidateAt(i).source = "chat" =>
                            CandidateAt(i) = EmptyForSoleFile(i)
                      /\ pc = "updated" /\ TriedBefore(CandidateAt(i)) = {}
                            /\ ~cfg.io_dry_run =>
                            file_content[str_of(CandidateAt(i).path)] = ""

\* The reply ends with a fence after the fence that closed a block for the file
\* b: the sole file of the chat, a, was emptied.
C39_SoleFileEmptied ==
    /\ pc = "updated"
    /\ fence = fences[1]
    /\ reply_content = <<<<"b">>, fence_line, <<"b">>, fence_line, fence_line>>
    /\ extracted.chat_files = {<<"a">>}
    /\ Len(extracted.returned) = 2
    /\ extracted.returned[2] = EmptyForSoleFile(5)
    /\ file_content["a"] = ""

----------------------------------------------------------------------------
\* Properties of the move of the messages of the turn into the history
\* (SummarySpec).

\* The step ends a cycle with move_back_cur_messages: the messages of the turn,
\* the reply among them, go to the end of the history in their order, the
\* commit-notice exchange after them, and cur_messages is emptied.
MovedBack ==
    /\ [][pc = "replied" /\ pc' = "moving back" =>
             /\ Len(cur_messages') = Len(cur_messages) + 1
             /\ cur_messages'[Len(cur_messages')].role = "assistant"
             /\ done_messages' = done_messages \o cur_messages']_vars
    /\ [][pc = "moving back" /\ pc' = "assembling" =>
             /\ done_messages' = done_messages \o commit_exchange(send_cycles)
             /\ cur_messages' = <<>>]_vars

\* A cycle that ends otherwise leaves the history as it is, and one whose send
\* failed leaves the message of the user last in cur_messages.
NotMovedBack ==
    [][pc = "replied" /\ pc' = "assembling" =>
          /\ done_messages' = done_messages
          /\ Len(log') > Len(log) /\ log'[Len(log')].op \in SendFailures =>
                /\ cur_messages' = cur_messages
                /\ cur_messages[Len(cur_messages)] = user_message(send_cycles)]_vars

\* C40 as stated: the messages of the turn are moved exactly in the cycles
\* where an edit was applied and neither the lint step nor the test step set
\* the reflected message; every other cycle leaves the history unchanged, from
\* its start on.
C40_MovedExactlyAfterEdits ==
    /\ MovedBack
    /\ NotMovedBack
    /\ [][pc = "replied" /\ pc' # pc =>
             (pc' = "moving back" <=> edited' # {} /\ ~Truthy(reflected_message'))]_vars
    /\ [][pc = "assembling" /\ pc' = "replied" => done_messages' = done_messages]_vars

\* C40: the messages of the turn are moved exactly in the cycles where an edit
\* was applied, neither the lint step nor the test step set the reflected
\* message, and no ^C ended the cycle after the edits. No other step of a cycle
\* changes the history but the join at its start (format_messages), which puts
\* the summary of the task in its place when a task was started.
C40_MovedAfterEdits ==
    /\ MovedBack
    /\ NotMovedBack
    /\ [][pc = "replied" /\ pc' # pc =>
             (pc' = "moving back" <=>
                 /\ edited' # {}
                 /\ ~Truthy(reflected_message')
                 /\ ~(Len(log') > Len(log) /\ log'[Len(log')] = SigInt))]_vars
    /\ [][pc = "assembling" /\ pc' = "replied" =>
             done_messages' = IF summarizer_thread = NoThread THEN done_messages
                              ELSE summarized_done_messages]_vars

\* The send of the second cycle failed after a cycle that ended with a reflected
\* message: cur_messages holds both messages of the user, the last with no reply
\* after it, and the history holds nothing.
C40_UserMessageLeft ==
    /\ pc = "assembling"
    /\ send_cycles = 3
    /\ done_messages = <<>>
    /\ cur_messages = <<user_message(1), assistant_message(1), user_message(2)>>
    /\ log[Len(log)].op \in SendFailures

====
